---- MODULE Spec2Model ----
(***************************************************************************)
(* Room / phase state machine of the category game server                  *)
(* (src/unnamed/part_000, lines 1-1684: the variant with durable player    *)
(* identifiers, reconnection and auto-advancing phases).                   *)
(*                                                                         *)
(* One room is modelled.  Every async handler is cut at its awaits: the    *)
(* part up to the first await is one action, each continuation another,    *)
(* and the handlers suspended in between are kept in the task variables.   *)
(* Strings that the code trims or lower-cases are sequences of characters. *)
(***************************************************************************)
EXTENDS Integers, Sequences, FiniteSets, Bags, TLC

\* ---------------------------------------------------------------- bounds
MaxPlayers == 2        \* player identifiers issued over a run
MaxSockets == 3        \* connections opened over a run
NumPresets == 1        \* preset categories seeded for the game
SubmissionTime == 2    \* seconds of the submission timer
VotingMinimum == 1     \* least seconds of the voting timer
VotingPerExemplar == 1 \* seconds of voting per exemplar
MaxInFlight == 1       \* suspended submit, vote and start handlers at a time
MaxVoters == 4        \* players of the scored round
MaxSubmissions == 2    \* submissions of the scored round
MaxNow == 4            \* wall clock bound, in ClockStep units

\* 1 unit of `now` is ClockStep ms
ClockStep == 500

Sockets == 1..MaxSockets
PlayerIds == 1..MaxPlayers
NoSocket == 0
NoPlayer == 0

VARIABLES
    connected,        \* sockets currently open
    nextSocket,       \* next socket.id handed out
    nextPlayerId,     \* next uuid handed out
    rooms,            \* TRUE when rooms has the room's code
    gmSocketId, displaySocketId,
    gameState, currentCategory, round,
    submissions,      \* room.submissions
    players,          \* room.players: playerId -> player
    socketToPlayer,   \* socketId -> playerId
    currentTimer,     \* room.currentTimer
    strayTimers,      \* timers still ticking that the room no longer references
    timerState,       \* room.timerState
    currentResults, currentResultIndex,
    categories,       \* the categories table of the game
    joins, submits, voteTasks, selects, resultTasks, timeouts,
    now,
    lastEmit,         \* what the last handler step sent with socket.emit
    timer,            \* a GameTimer object driven by its own methods
    onCompleteCalls,  \* how often that timer invoked its onComplete callback
    onTickCalls,      \* how often that timer invoked its onTick callback
    savedState,       \* the last value getState() returned for that timer
    tickDue,          \* Date.now() at which that timer's setInterval callback runs next
    lastCall,         \* the method of that timer that ran last
    roomsByCode,      \* the rooms Map of the process: code -> room
    creating,         \* create-room handlers suspended at their awaits
    gamesTable,       \* the room_code column of the games table, in row order
    submissionsTable, \* the (round_id, player_id) pairs of the submissions table
    roundsTable       \* the round_number column of the game's rows in the rounds table

roomVars == <<rooms, gmSocketId, displaySocketId, gameState, currentCategory,
              round, submissions, players, currentTimer, strayTimers,
              timerState, currentResults, currentResultIndex>>
taskVars == <<joins, submits, voteTasks, selects, resultTasks, timeouts>>
timerVars == <<timer, onCompleteCalls, onTickCalls, savedState, tickDue, lastCall>>
registryVars == <<roomsByCode, creating, gamesTable, submissionsTable, roundsTable>>
vars == <<connected, nextSocket, nextPlayerId, roomVars, socketToPlayer,
          categories, taskVars, now, lastEmit, timerVars, registryVars>>

\* ---------------------------------------------------------------- strings
Blank == " "

toLowerCase(s) ==
    [i \in DOMAIN s |-> IF s[i] = "A" THEN "a"
                        ELSE IF s[i] = "B" THEN "b" ELSE s[i]]

RECURSIVE trimStart(_)
trimStart(s) ==
    IF s # <<>> /\ Head(s) = Blank THEN trimStart(Tail(s)) ELSE s

RECURSIVE trimEnd(_)
trimEnd(s) ==
    IF s # <<>> /\ s[Len(s)] = Blank THEN trimEnd(SubSeq(s, 1, Len(s) - 1)) ELSE s

\* a trim that keeps the blanks
trim_none(s) == s

trim(s) == trimEnd(trimStart(s))

\* nicknames and exemplars the clients send
Nicknames == { <<"A">>, <<"a">>, <<"a", " ">>, <<" ">> }
Exemplars == { <<"x">>, <<" ">> }

PRESET_CATEGORIES ==
    << "furniture", "tools", "games", "clothing", "vehicles", "food",
       "animals", "colors", "sports", "music", "technology", "books",
       "drinks", "toys", "plants", "weather", "emotions", "professions" >>

\* ---------------------------------------------------------------- timers
NoTimer == [exists |-> FALSE, duration |-> 0, remaining |-> 0, phase |-> "",
            isActive |-> FALSE, interval |-> FALSE, startTime |-> 0]

NoTimerState == [exists |-> FALSE, remaining |-> 0, phase |-> "",
                 gameState |-> "", timestamp |-> 0]

\* GameTimer.getState, lines 78-85
getState(t) ==
    [remaining |-> t.remaining, phase |-> t.phase, isActive |-> t.isActive,
     startTime |-> t.startTime]

NoSavedState == getState(NoTimer)

\* no GameTimer is driven on its own, and no room but the one of `rooms` is followed
Aside ==
    /\ timer = NoTimer
    /\ onCompleteCalls = 0
    /\ onTickCalls = 0
    /\ savedState = NoSavedState
    /\ tickDue = 0
    /\ lastCall = ""
    /\ roomsByCode = <<>>
    /\ creating = {}
    /\ gamesTable = <<>>
    /\ submissionsTable = {}

\* new GameTimer(duration, onComplete, onTick, phase)
GameTimer(duration, phase) ==
    [exists |-> TRUE, duration |-> duration, remaining |-> duration,
     phase |-> phase, isActive |-> FALSE, interval |-> FALSE, startTime |-> 0]

\* GameTimer.start
start(t) ==
    IF t.isActive THEN t
    ELSE [t EXCEPT !.isActive = TRUE, !.interval = TRUE, !.startTime = now * ClockStep]

\* a cancel that leaves the interval set
cancel_keepsInterval(t) == [t EXCEPT !.isActive = FALSE]

\* GameTimer.cancel
cancel(t) == [t EXCEPT !.isActive = FALSE, !.interval = FALSE]

\* a phase start that leaves the timer of the phase before it running
cancelCurrentTimer_kept(t) == t

\* if (room.currentTimer) room.currentTimer.cancel()
cancelCurrentTimer(t) == IF t.exists THEN cancel(t) ELSE t

\* a timer object the room stops referencing keeps ticking while its interval is set
Dropped(t) == IF t.exists /\ t.interval THEN {t} ELSE {}

\* ---------------------------------------------------------------- lookups
Max(a, b) == IF a >= b THEN a ELSE b
Min(a, b) == IF a <= b THEN a ELSE b

\* the displayData of show-enhanced-summary; <<>> for a field it does not have
NoData == [showAll |-> FALSE, allResults |-> <<>>, topResults |-> <<>>,
           bottomResults |-> <<>>]

\* socket.emit(event, {message, timerRemaining, timerPhase}) on connection `to`;
\* -1 and "" when absent, NoSocket when nothing goes to one connection
NoEmit ==
    [to |-> NoSocket, event |-> "", message |-> "", timerRemaining |-> -1,
     timerPhase |-> "", data |-> NoData]
Emit(s, ev, msg) == [NoEmit EXCEPT !.to = s, !.event = ev, !.message = msg]

NewPlayer(s, nick) ==
    [socketId |-> s, nickname |-> nick, score |-> 0, hasSubmitted |-> FALSE,
     hasVoted |-> FALSE, isConnected |-> TRUE]

\* findPlayerBySocketId: the player identifier, NoPlayer for null/undefined
findPlayerBySocketId(s) ==
    IF s \notin DOMAIN socketToPlayer THEN NoPlayer
    ELSE IF ~rooms THEN NoPlayer
    ELSE IF socketToPlayer[s] \in DOMAIN players THEN socketToPlayer[s]
    ELSE NoPlayer

\* findRoomBySocketId: TRUE when a room is found for the socket
findRoomBySocketId(s) ==
    IF s \in DOMAIN socketToPlayer THEN rooms
    ELSE rooms /\ (gmSocketId = s \/ displaySocketId = s)

\* updateSocketMapping
updateSocketMapping(m, s, p) == [x \in DOMAIN m \cup {s} |-> IF x = s THEN p ELSE m[x]]

\* removeSocketMapping
removeSocketMapping(m, s) == [x \in DOMAIN m \ {s} |-> m[x]]

\* a nickname check that counts the disconnected players too
existingNicknames_anyPlayer ==
    { toLowerCase(players[p].nickname) : p \in DOMAIN players }

\* the nicknames of the connected players, lower-cased (join-room)
existingNicknames ==
    { toLowerCase(players[p].nickname) : p \in {q \in DOMAIN players : players[q].isConnected} }

\* the pending setTimeout callbacks, counted by kind
TimeoutKinds == {"gm-grace", "advance", "summary", "scoreboard", "next"}

\* ---------------------------------------------------------------- initial state
Init ==
    /\ Aside
    /\ connected = {}
    /\ nextSocket = 1
    /\ nextPlayerId = 1
    /\ rooms = FALSE
    /\ gmSocketId = NoSocket
    /\ displaySocketId = NoSocket
    /\ gameState = "lobby"
    /\ currentCategory = ""
    /\ round = 0
    /\ roundsTable = 1..round
    /\ submissions = <<>>
    /\ players = <<>>
    /\ socketToPlayer = <<>>
    /\ currentTimer = NoTimer
    /\ strayTimers = {}
    /\ timerState = NoTimerState
    /\ currentResults = <<>>
    /\ currentResultIndex = -1
    /\ categories = {}
    /\ joins = {}
    /\ submits = EmptyBag
    /\ voteTasks = EmptyBag
    /\ selects = EmptyBag
    /\ resultTasks = EmptyBag
    /\ timeouts = [k \in TimeoutKinds |-> 0]
    /\ now = 0
    /\ lastEmit = NoEmit

\* ---------------------------------------------------------------- connections
\* io.on('connection'): a client opens a socket with a fresh id
Connect ==
    /\ nextSocket <= MaxSockets
    /\ connected' = connected \cup {nextSocket}
    /\ nextSocket' = nextSocket + 1
    /\ lastEmit' = NoEmit
    /\ UNCHANGED <<timerVars, registryVars, nextPlayerId, roomVars, socketToPlayer, categories, taskVars, now>>

\* socket.on('create-room'): the one room of the model, created once
CreateRoom(s) ==
    /\ s \in connected
    /\ ~rooms
    /\ gmSocketId = NoSocket
    /\ rooms' = TRUE
    /\ gmSocketId' = s
    /\ categories' = { [text |-> PRESET_CATEGORIES[i], isPreset |-> TRUE, used |-> FALSE] :
                        i \in 1..NumPresets }
    /\ lastEmit' = Emit(s, "room-created", "")
    /\ UNCHANGED <<timerVars, registryVars, connected, nextSocket, nextPlayerId, displaySocketId, gameState,
                   currentCategory, round, submissions, players, currentTimer,
                   strayTimers, timerState, currentResults, currentResultIndex,
                   socketToPlayer, taskVars, now>>

\* socket.on('join-room'), up to await logPlayerJoined
JoinRoom(s, nickname) ==
    /\ s \in connected
    /\ IF ~rooms
       THEN /\ lastEmit' = Emit(s, "join-error", "Room not found")
            /\ UNCHANGED <<nextPlayerId, joins>>
       ELSE IF Len(trim(nickname)) = 0
       THEN /\ lastEmit' = Emit(s, "join-error", "Nickname required")
            /\ UNCHANGED <<nextPlayerId, joins>>
       ELSE IF toLowerCase(nickname) \in existingNicknames
       THEN /\ lastEmit' = Emit(s, "join-error", "Nickname already taken")
            /\ UNCHANGED <<nextPlayerId, joins>>
       ELSE /\ nextPlayerId <= MaxPlayers
            /\ joins' = joins \cup {[socket |-> s, nickname |-> nickname,
                                     playerId |-> nextPlayerId]}
            /\ nextPlayerId' = nextPlayerId + 1
            /\ lastEmit' = NoEmit
    /\ UNCHANGED <<timerVars, registryVars, connected, nextSocket, roomVars, socketToPlayer, categories,
                   submits, voteTasks, selects, resultTasks, timeouts, now>>

\* socket.on('join-room'), after logPlayerJoined resolved
JoinRoomDone(j) ==
    /\ j \in joins
    /\ joins' = joins \ {j}
    /\ players' = [p \in DOMAIN players \cup {j.playerId} |->
                     IF p = j.playerId THEN NewPlayer(j.socket, trim(j.nickname))
                     ELSE players[p]]
    /\ socketToPlayer' = updateSocketMapping(socketToPlayer, j.socket, j.playerId)
    /\ lastEmit' = Emit(j.socket, "join-success", "")
    /\ UNCHANGED <<timerVars, registryVars, connected, nextSocket, nextPlayerId, rooms, gmSocketId,
                   displaySocketId, gameState, currentCategory, round, submissions,
                   currentTimer, strayTimers, timerState, currentResults,
                   currentResultIndex, categories, submits, voteTasks, selects,
                   resultTasks, timeouts, now>>

\* socket.on('join-room'), logPlayerJoined rejected
JoinRoomFailed(j) ==
    /\ j \in joins
    /\ joins' = joins \ {j}
    /\ lastEmit' = Emit(j.socket, "join-error", "Failed to join game")
    /\ UNCHANGED <<timerVars, registryVars, connected, nextSocket, nextPlayerId, roomVars, socketToPlayer,
                   categories, submits, voteTasks, selects, resultTasks, timeouts, now>>

\* a disconnect that also drops the player's per-round flags
playerDisconnected_reset(ps, p) ==
    [ps EXCEPT ![p].isConnected = FALSE, ![p].socketId = NoSocket,
               ![p].hasSubmitted = FALSE, ![p].hasVoted = FALSE]

\* socket.on('disconnect')
playerDisconnected(ps, p) ==
    [ps EXCEPT ![p].isConnected = FALSE, ![p].socketId = NoSocket]

Disconnect(s) ==
    /\ s \in connected
    /\ connected' = connected \ {s}
    /\ lastEmit' = NoEmit
    /\ IF s \notin DOMAIN socketToPlayer
       THEN UNCHANGED <<socketToPlayer, gmSocketId, displaySocketId, players, timeouts>>
       ELSE /\ socketToPlayer' = removeSocketMapping(socketToPlayer, s)
            /\ IF ~rooms
               THEN UNCHANGED <<gmSocketId, displaySocketId, players, timeouts>>
               ELSE IF gmSocketId = s
               THEN /\ gmSocketId' = NoSocket
                    /\ timeouts' = [timeouts EXCEPT !["gm-grace"] = @ + 1]
                    /\ UNCHANGED <<displaySocketId, players>>
               ELSE IF displaySocketId = s
               THEN /\ displaySocketId' = NoSocket
                    /\ UNCHANGED <<gmSocketId, players, timeouts>>
               ELSE /\ players' = IF socketToPlayer[s] \in DOMAIN players
                                   THEN playerDisconnected(players, socketToPlayer[s])
                                   ELSE players
                    /\ UNCHANGED <<gmSocketId, displaySocketId, timeouts>>
    /\ UNCHANGED <<timerVars, registryVars, nextSocket, nextPlayerId, rooms, gameState, currentCategory, round,
                   submissions, currentTimer, strayTimers, timerState, currentResults,
                   currentResultIndex, categories, joins, submits, voteTasks, selects,
                   resultTasks, now>>

\* handlePlayerReconnection, lines 366-384: the timer data of reconnect-success
elapsedSeconds(timestamp) == (now * ClockStep - timestamp) \div 1000
reconnectRemaining == Max(0, timerState.remaining - elapsedSeconds(timerState.timestamp))

reconnectData(s) ==
    IF timerState.exists /\ reconnectRemaining > 0
    THEN [Emit(s, "reconnect-success", "") EXCEPT
              !.timerRemaining = reconnectRemaining, !.timerPhase = timerState.phase]
    ELSE Emit(s, "reconnect-success", "")

\* a reconnect that rebuilds the player as the database branch does, with score 0
playerReconnected_fresh(ps, p, s) ==
    [ps EXCEPT ![p] = NewPlayer(s, ps[p].nickname)]

\* handlePlayerReconnection, lines 335-339: the player is in memory
playerReconnected(ps, p, s) ==
    [ps EXCEPT ![p].socketId = s, ![p].isConnected = TRUE]

\* socket.on('reconnect-player') -> handlePlayerReconnection
ReconnectPlayer(s, playerId) ==
    /\ s \in connected
    /\ IF ~rooms
       THEN /\ lastEmit' = Emit(s, "reconnect-error", "Room not found")
            /\ UNCHANGED <<players, socketToPlayer>>
       ELSE IF playerId \notin DOMAIN players
       THEN /\ lastEmit' = Emit(s, "reconnect-error", "Player not found")
            /\ UNCHANGED <<players, socketToPlayer>>
       ELSE /\ players' = playerReconnected(players, playerId, s)
            /\ socketToPlayer' = updateSocketMapping(socketToPlayer, s, playerId)
            /\ lastEmit' = reconnectData(s)
    /\ UNCHANGED <<timerVars, registryVars, connected, nextSocket, nextPlayerId, rooms, gmSocketId,
                   displaySocketId, gameState, currentCategory, round, submissions,
                   currentTimer, strayTimers, timerState, currentResults,
                   currentResultIndex, categories, taskVars, now>>

\* ---------------------------------------------------------------- the room's phase state
\* The fields of the room that the phase functions change, with the suspended
\* startResultsPhase loops and the pending setTimeout callbacks they schedule.
Room ==
    [gameState |-> gameState, currentCategory |-> currentCategory,
     submissions |-> submissions, players |-> players,
     currentTimer |-> currentTimer, strayTimers |-> strayTimers,
     timerState |-> timerState, currentResults |-> currentResults,
     currentResultIndex |-> currentResultIndex,
     resultTasks |-> resultTasks, timeouts |-> timeouts]

Commit(r) ==
    /\ gameState' = r.gameState
    /\ currentCategory' = r.currentCategory
    /\ submissions' = r.submissions
    /\ players' = r.players
    /\ currentTimer' = r.currentTimer
    /\ strayTimers' = r.strayTimers
    /\ timerState' = r.timerState
    /\ currentResults' = r.currentResults
    /\ currentResultIndex' = r.currentResultIndex
    /\ resultTasks' = r.resultTasks
    /\ timeouts' = r.timeouts

AddTask(b, t) == b (+) SetToBag({t})
RemoveTask(b, t) == b (-) SetToBag({t})
InFlight == BagCardinality(submits) + BagCardinality(voteTasks) + BagCardinality(selects)

\* room.currentTimer = new GameTimer(...); room.currentTimer.start()
setCurrentTimer(r, t) ==
    [r EXCEPT !.currentTimer = start(t),
              !.strayTimers = @ \cup Dropped(r.currentTimer)]

\* if (room.currentTimer) room.currentTimer.cancel()
cancelRoomTimer(r) == [r EXCEPT !.currentTimer = cancelCurrentTimer(@)]

RECURSIVE CopiesOf(_, _)
CopiesOf(b, S) ==
    IF S = {} THEN 0
    ELSE LET x == CHOOSE y \in S : TRUE IN b[x] + CopiesOf(b, S \ {x})

\* a startResultsPhase loop iterates the array object it started on: when the room
\* gets a new array the loop keeps the old one
detach(t, subs) == IF t.live THEN [t EXCEPT !.live = FALSE, !.subs = subs] ELSE t

detachAll(b, subs) ==
    [u \in {detach(t, subs) : t \in DOMAIN b} |->
        CopiesOf(b, {t \in DOMAIN b : detach(t, subs) = u})]

\* room.submissions = []
replaceSubmissions(r) ==
    [r EXCEPT !.submissions = <<>>,
              !.resultTasks = detachAll(@, r.submissions)]

resetRoundFlags(ps) ==
    [p \in DOMAIN ps |-> [ps[p] EXCEPT !.hasSubmitted = FALSE, !.hasVoted = FALSE]]

\* startSubmissionPhase
startSubmissionPhase(r, category) ==
    LET r1 == [replaceSubmissions(r) EXCEPT !.gameState = "submitting",
                                            !.currentCategory = category,
                                            !.players = resetRoundFlags(@)]
    IN setCurrentTimer(cancelRoomTimer(r1), GameTimer(SubmissionTime, "submission"))

\* a voting time that ignores the number of exemplars
votingTime_minimum(n) == VotingMinimum

\* startVotingPhase, lines 503-506
votingTime(n) == Max(VotingMinimum, n * VotingPerExemplar)

\* startVotingPhase
startVotingPhase(r) ==
    LET r1 == [r EXCEPT !.gameState = "voting"]
        r2 == cancelRoomTimer(r1)
        r3 == [r2 EXCEPT
                 !.players = [p \in DOMAIN @ |-> [@[p] EXCEPT !.hasVoted = FALSE]],
                 !.submissions = [i \in DOMAIN @ |-> [@[i] EXCEPT !.votes = <<>>]]]
    IN setCurrentTimer(r3, GameTimer(votingTime(Len(r.submissions)), "voting"))

\* the yes/no counts and points of one submission (startResultsPhase, lines 700-707)
yesCount(votes) == Cardinality({v \in DOMAIN votes : votes[v]})
noCount(votes) == Cardinality(DOMAIN votes) - yesCount(votes)
\* a scoring that pays the yes votes
points_yes(votes) == yesCount(votes)

points(votes) == Min(yesCount(votes), noCount(votes))

resultOf(sub) ==
    [exemplar |-> sub.exemplar, submittedBy |-> sub.nickname,
     yesCount |-> yesCount(sub.votes), noCount |-> noCount(sub.votes),
     points |-> points(sub.votes)]

\* submitter.score += points
awardPoints(ps, sub) ==
    IF sub.playerId \in DOMAIN ps
    THEN [ps EXCEPT ![sub.playerId].score = @ + points(sub.votes)]
    ELSE ps

\* startResultsPhase, after the loop: lines 728-746
finishResults(r, results) ==
    [r EXCEPT !.currentResults = results, !.currentResultIndex = -1,
              !.timeouts = [@ EXCEPT !["advance"] = @ + 1]]

\* startResultsPhase up to its first await
startResultsPhase(r) ==
    LET r1 == cancelRoomTimer([r EXCEPT !.gameState = "results"])
    IN IF Len(r1.submissions) = 0
       THEN finishResults(r1, <<>>)
       ELSE [r1 EXCEPT
               !.players = awardPoints(@, r1.submissions[1]),
               !.resultTasks = AddTask(@, [idx |-> 1, live |-> TRUE, subs |-> <<>>,
                                           results |-> <<resultOf(r1.submissions[1])>>])]

\* checkSubmissionComplete
checkSubmissionComplete(r) ==
    IF /\ Cardinality({p \in DOMAIN r.players : r.players[p].hasSubmitted})
            = Cardinality(DOMAIN r.players)
       /\ Cardinality(DOMAIN r.players) > 0
    THEN startVotingPhase(cancelRoomTimer(r))
    ELSE r

\* checkVotingComplete
checkVotingComplete(r) ==
    IF /\ Cardinality({p \in DOMAIN r.players : r.players[p].hasVoted})
            = Cardinality(DOMAIN r.players)
       /\ Cardinality(DOMAIN r.players) > 0
    THEN startResultsPhase(cancelRoomTimer(r))
    ELSE r

\* ---------------------------------------------------------------- the game's handlers
otherVars == <<connected, nextSocket, nextPlayerId, rooms, gmSocketId, displaySocketId,
               socketToPlayer, now, timerVars, registryVars>>

\* a start that asks for one player only
tooFewPlayers_none == Cardinality(DOMAIN players) < 1

\* start-lobby-game, line 1404: room.players.size < 2
tooFewPlayers == Cardinality(DOMAIN players) < 2

\* socket.on('start-lobby-game') up to await getAvailableCategories
StartLobbyGame(s) ==
    /\ s \in connected
    /\ IF ~findRoomBySocketId(s) \/ (gmSocketId # s /\ displaySocketId # s)
       THEN /\ lastEmit' = Emit(s, "error", "Not authorized")
            /\ UNCHANGED <<round, selects>>
       ELSE IF tooFewPlayers
       THEN /\ lastEmit' = Emit(s, "error", "Need at least 2 players to start")
            /\ UNCHANGED <<round, selects>>
       ELSE /\ InFlight < MaxInFlight
            /\ round' = 1
            /\ selects' = AddTask(selects, [kind |-> "start", stage |-> "read",
                                            category |-> ""])
            /\ lastEmit' = NoEmit
    /\ UNCHANGED <<otherVars, gameState, currentCategory, submissions, players,
                   currentTimer, strayTimers, timerState, currentResults,
                   currentResultIndex, categories, joins, submits, voteTasks,
                   resultTasks, timeouts>>

\* getAvailableCategories
available == {c \in categories : ~c.used}

\* a pool that takes every unused entry, preset or not
pool_any == available

\* selectNextCategory, lines 440-441: prefer the player-submitted entries
pool == IF {c \in available : ~c.isPreset} # {} THEN {c \in available : ~c.isPreset}
        ELSE available

\* prepareNextRound, lines 845-855: no category is left
waitForCategory(r) ==
    [replaceSubmissions(r) EXCEPT !.gameState = "waiting-for-category",
                                  !.currentCategory = "",
                                  !.players = resetRoundFlags(@)]

\* selectNextCategory after getAvailableCategories resolved, with what its caller
\* does when it returns null
SelectRead(t) ==
    /\ BagIn(t, selects) /\ t.stage = "read"
    /\ IF available = {}
       THEN /\ selects' = RemoveTask(selects, t)
            /\ IF t.kind = "start"
               THEN /\ lastEmit' = Emit(NoSocket, "error",
                                        "Unable to start game - no categories available")
                    /\ UNCHANGED <<gameState, currentCategory, submissions, players,
                                   currentTimer, strayTimers, timerState,
                                   currentResults, currentResultIndex, resultTasks,
                                   timeouts>>
               ELSE /\ lastEmit' = NoEmit
                    /\ Commit(waitForCategory(Room))
       ELSE /\ \E c \in pool :
                 selects' = AddTask(RemoveTask(selects, t),
                                    [t EXCEPT !.stage = "mark", !.category = c.text])
            /\ lastEmit' = NoEmit
            /\ UNCHANGED <<gameState, currentCategory, submissions, players,
                           currentTimer, strayTimers, timerState, currentResults,
                           currentResultIndex, resultTasks, timeouts>>
    /\ UNCHANGED <<otherVars, round, categories, joins, submits, voteTasks>>

\* markCategoryAsUsed
markCategoryAsUsed(cs, text) ==
    {IF c.text = text THEN [c EXCEPT !.used = TRUE] ELSE c : c \in cs}

\* logRoundStarted, lines 1020-1034, against UNIQUE(game_id, round_number), line 926
roundLogged(n) == n \in roundsTable

\* after markCategoryAsUsed resolved and logRoundStarted settled: the INSERT of
\* the round's row is rejected when the game has a row with that round number and
\* the caller ends there; otherwise startSubmissionPhase
SelectDone(t) ==
    /\ BagIn(t, selects) /\ t.stage = "mark"
    /\ selects' = RemoveTask(selects, t)
    /\ categories' = markCategoryAsUsed(categories, t.category)
    /\ IF roundLogged(round)
       THEN UNCHANGED <<roundsTable, gameState, currentCategory, submissions, players,
                        currentTimer, strayTimers, timerState, currentResults,
                        currentResultIndex, resultTasks, timeouts>>
       ELSE /\ roundsTable' = roundsTable \cup {round}
            /\ Commit(startSubmissionPhase(Room, t.category))
    /\ lastEmit' = NoEmit
    /\ UNCHANGED <<connected, nextSocket, nextPlayerId, rooms, gmSocketId, displaySocketId,
                   socketToPlayer, now, timerVars, roomsByCode, creating, gamesTable,
                   submissionsTable, round, joins, submits, voteTasks>>

\* socket.on('submit-exemplar') up to await logSubmission
SubmitExemplar(s, exemplar) ==
    /\ s \in connected
    /\ IF s \notin DOMAIN socketToPlayer
       THEN /\ lastEmit' = Emit(s, "error", "Not in a room")
            /\ UNCHANGED submits
       ELSE IF socketToPlayer[s] \notin DOMAIN players
       THEN /\ lastEmit' = Emit(s, "error", "Player not found")
            /\ UNCHANGED submits
       ELSE IF gameState # "submitting"
       THEN /\ lastEmit' = Emit(s, "error", "Not in submission phase")
            /\ UNCHANGED submits
       ELSE IF players[socketToPlayer[s]].hasSubmitted
       THEN /\ lastEmit' = Emit(s, "error", "Already submitted")
            /\ UNCHANGED submits
       ELSE IF Len(trim(exemplar)) = 0
       THEN /\ lastEmit' = Emit(s, "error", "Exemplar cannot be empty")
            /\ UNCHANGED submits
       ELSE /\ InFlight < MaxInFlight
            /\ submits' = AddTask(submits, [socket |-> s, playerId |-> socketToPlayer[s],
                                            exemplar |-> exemplar])
            /\ lastEmit' = NoEmit
    /\ UNCHANGED <<otherVars, round, gameState, currentCategory, submissions, players,
                   currentTimer, strayTimers, timerState, currentResults,
                   currentResultIndex, categories, joins, voteTasks, selects,
                   resultTasks, timeouts>>

\* socket.on('submit-exemplar'), lines 1486-1505
exemplarSubmitted(r, t) ==
    checkSubmissionComplete(
        [r EXCEPT !.submissions = Append(@, [playerId |-> t.playerId,
                                             nickname |-> r.players[t.playerId].nickname,
                                             exemplar |-> trim(t.exemplar),
                                             votes |-> <<>>]),
                  !.players[t.playerId].hasSubmitted = TRUE])

\* socket.on('submit-exemplar') after logSubmission resolved
SubmitExemplarDone(t) ==
    /\ BagIn(t, submits)
    /\ submits' = RemoveTask(submits, t)
    /\ Commit(exemplarSubmitted(Room, t))
    /\ lastEmit' = Emit(t.socket, "submission-confirmed", "")
    /\ UNCHANGED <<otherVars, round, categories, joins, voteTasks, selects>>

\* room.submissions[index].votes.set(playerId, !!vote)
setVote(r, i, p, v) ==
    [r EXCEPT !.submissions[i].votes =
        [x \in DOMAIN @ \cup {p} |-> IF x = p THEN v ELSE @[x]]]

\* socket.on('submit-votes'), lines 1553-1563
votesSubmitted(r, p) ==
    checkVotingComplete([r EXCEPT !.players[p].hasVoted = TRUE])

\* socket.on('submit-votes') up to its first await logVote; the client votes on
\* every exemplar it was shown
SubmitVotes(s, votes) ==
    /\ s \in connected
    /\ IF s \notin DOMAIN socketToPlayer
       THEN /\ lastEmit' = Emit(s, "error", "Not in a room")
            /\ UNCHANGED <<voteTasks, gameState, submissions, players, currentTimer,
                           strayTimers, currentResults, currentResultIndex,
                           resultTasks, timeouts>>
       ELSE IF socketToPlayer[s] \notin DOMAIN players
       THEN /\ lastEmit' = Emit(s, "error", "Player not found")
            /\ UNCHANGED <<voteTasks, gameState, submissions, players, currentTimer,
                           strayTimers, currentResults, currentResultIndex,
                           resultTasks, timeouts>>
       ELSE IF gameState # "voting"
       THEN /\ lastEmit' = Emit(s, "error", "Not in voting phase")
            /\ UNCHANGED <<voteTasks, gameState, submissions, players, currentTimer,
                           strayTimers, currentResults, currentResultIndex,
                           resultTasks, timeouts>>
       ELSE IF players[socketToPlayer[s]].hasVoted
       THEN /\ lastEmit' = Emit(s, "error", "Already voted")
            /\ UNCHANGED <<voteTasks, gameState, submissions, players, currentTimer,
                           strayTimers, currentResults, currentResultIndex,
                           resultTasks, timeouts>>
       ELSE /\ DOMAIN votes = DOMAIN submissions
            /\ lastEmit' = NoEmit
            /\ IF Len(submissions) = 0
               THEN /\ UNCHANGED voteTasks
                    /\ LET r == votesSubmitted(Room, socketToPlayer[s])
                       IN /\ gameState' = r.gameState
                          /\ submissions' = r.submissions
                          /\ players' = r.players
                          /\ currentTimer' = r.currentTimer
                          /\ strayTimers' = r.strayTimers
                          /\ currentResults' = r.currentResults
                          /\ currentResultIndex' = r.currentResultIndex
                          /\ resultTasks' = r.resultTasks
                          /\ timeouts' = r.timeouts
               ELSE /\ InFlight < MaxInFlight
                    /\ voteTasks' = AddTask(voteTasks,
                                            [socket |-> s, playerId |-> socketToPlayer[s],
                                             votes |-> votes, idx |-> 1])
                    /\ submissions' =
                           setVote(Room, 1, socketToPlayer[s], votes[1]).submissions
                    /\ UNCHANGED <<gameState, players, currentTimer, strayTimers,
                                   currentResults, currentResultIndex, resultTasks,
                                   timeouts>>
    /\ UNCHANGED <<otherVars, round, currentCategory, timerState, categories, joins,
                   submits, selects>>

\* socket.on('submit-votes') after a logVote resolved: the next entry of votes whose
\* submission exists, or the end of the loop
VoteStep(t) ==
    /\ BagIn(t, voteTasks)
    /\ LET rest == {i \in DOMAIN t.votes : i > t.idx /\ i <= Len(submissions)}
       IN IF rest # {}
          THEN LET i == CHOOSE x \in rest : \A y \in rest : x <= y
               IN /\ voteTasks' = AddTask(RemoveTask(voteTasks, t), [t EXCEPT !.idx = i])
                  /\ Commit(setVote(Room, i, t.playerId, t.votes[i]))
          ELSE /\ voteTasks' = RemoveTask(voteTasks, t)
               /\ Commit(votesSubmitted(Room, t.playerId))
    /\ lastEmit' = NoEmit
    /\ UNCHANGED <<otherVars, round, categories, joins, submits, selects>>

\* startResultsPhase after the awaits of one submission: the next submission of the
\* array, or the end of the loop
resultsStep(r, t) ==
    LET subs == IF t.live THEN r.submissions ELSE t.subs
        r1 == [r EXCEPT !.resultTasks = RemoveTask(@, t)]
    IN IF t.idx + 1 <= Len(subs)
       THEN [r1 EXCEPT
               !.players = awardPoints(@, subs[t.idx + 1]),
               !.resultTasks =
                   AddTask(@, [t EXCEPT !.idx = t.idx + 1,
                                        !.results = Append(@, resultOf(subs[t.idx + 1]))])]
       ELSE finishResults(r1, t.results)

ResultsStep(t) ==
    /\ BagIn(t, resultTasks)
    /\ Commit(resultsStep(Room, t))
    /\ lastEmit' = NoEmit
    /\ UNCHANGED <<otherVars, round, categories, joins, submits, voteTasks, selects>>

\* autoAdvanceResults
AutoAdvanceResults ==
    /\ timeouts["advance"] > 0
    /\ IF currentResultIndex >= Len(currentResults) - 1
       THEN /\ timeouts' = [timeouts EXCEPT !["advance"] = @ - 1, !["summary"] = @ + 1]
            /\ UNCHANGED currentResultIndex
       ELSE /\ currentResultIndex' = currentResultIndex + 1
            /\ UNCHANGED timeouts
    /\ lastEmit' = NoEmit
    /\ UNCHANGED <<otherVars, round, gameState, currentCategory, submissions, players,
                   currentTimer, strayTimers, timerState, currentResults, categories,
                   joins, submits, voteTasks, selects, resultTasks>>

\* |yesCount - noCount| of a result
controversy(a) ==
    IF a.yesCount >= a.noCount THEN a.yesCount - a.noCount ELSE a.noCount - a.yesCount

\* a tiebreak that puts the larger vote difference first
tiebreak_descending(a, b) == controversy(b) - controversy(a)

\* the tiebreak of the comparator: aControversy - bControversy
tiebreak(a, b) == controversy(a) - controversy(b)

\* the comparator of autoShowSummary's sort, lines 782-789
byPoints(a, b) ==
    IF a.points # b.points THEN b.points - a.points ELSE tiebreak(a, b)

\* Array.prototype.sort with that comparator: stable, so an element goes before
\* the first one it compares less than
RECURSIVE insertSorted(_, _)
insertSorted(sorted, x) ==
    IF sorted = <<>> THEN <<x>>
    ELSE IF byPoints(x, Head(sorted)) < 0 THEN <<x>> \o sorted
    ELSE <<Head(sorted)>> \o insertSorted(Tail(sorted), x)

RECURSIVE sortedByPoints(_)
sortedByPoints(results) ==
    IF results = <<>> THEN <<>>
    ELSE insertSorted(sortedByPoints(SubSeq(results, 1, Len(results) - 1)),
                      results[Len(results)])

\* a summary that shows everything up to seven results
showAll_seven(n) == n <= 7

\* sortedByPoints.length <= 6
showAll(n) == n <= 6

\* slice(-3)
lastThree(s) == SubSeq(s, Max(1, Len(s) - 2), Len(s))

\* the displayData of autoShowSummary, lines 791-805
displayData(results) ==
    LET sorted == sortedByPoints(results)
    IN IF showAll(Len(sorted))
       THEN [NoData EXCEPT !.showAll = TRUE, !.allResults = sorted]
       ELSE [NoData EXCEPT !.showAll = FALSE, !.topResults = SubSeq(sorted, 1, 3),
                           !.bottomResults = lastThree(sorted)]

\* autoShowSummary
AutoShowSummary ==
    /\ timeouts["summary"] > 0
    /\ timeouts' = [timeouts EXCEPT !["summary"] = @ - 1, !["scoreboard"] = @ + 1]
    /\ lastEmit' = IF displaySocketId # NoSocket
                   THEN [Emit(displaySocketId, "show-enhanced-summary", "")
                           EXCEPT !.data = displayData(currentResults)]
                   ELSE NoEmit
    /\ UNCHANGED <<otherVars, round, gameState, currentCategory, submissions, players,
                   currentTimer, strayTimers, timerState, currentResults,
                   currentResultIndex, categories, joins, submits, voteTasks, selects,
                   resultTasks>>

\* autoShowScoreboard
AutoShowScoreboard ==
    /\ timeouts["scoreboard"] > 0
    /\ timeouts' = [timeouts EXCEPT !["scoreboard"] = @ - 1, !["next"] = @ + 1]
    /\ lastEmit' = NoEmit
    /\ UNCHANGED <<otherVars, round, gameState, currentCategory, submissions, players,
                   currentTimer, strayTimers, timerState, currentResults,
                   currentResultIndex, categories, joins, submits, voteTasks, selects,
                   resultTasks>>

\* prepareNextRound up to await getAvailableCategories
PrepareNextRound ==
    /\ timeouts["next"] > 0
    /\ timeouts' = [timeouts EXCEPT !["next"] = @ - 1]
    /\ round' = round + 1
    /\ selects' = AddTask(selects, [kind |-> "next", stage |-> "read", category |-> ""])
    /\ lastEmit' = NoEmit
    /\ UNCHANGED <<otherVars, gameState, currentCategory, submissions, players,
                   currentTimer, strayTimers, timerState, currentResults,
                   currentResultIndex, categories, joins, submits, voteTasks,
                   resultTasks>>

\* an end-game open to every connection that finds the room
endGameAuthorized_room(s) == findRoomBySocketId(s)

\* end-game, line 1576: room && room.gmSocketId === socket.id
endGameAuthorized(s) == findRoomBySocketId(s) /\ gmSocketId = s

\* socket.on('end-game')
EndGame(s) ==
    /\ s \in connected
    /\ IF ~endGameAuthorized(s)
       THEN /\ lastEmit' = Emit(s, "error", "Not authorized")
            /\ UNCHANGED gameState
       ELSE /\ gameState' = "ended"
            /\ lastEmit' = NoEmit
    /\ UNCHANGED <<otherVars, round, currentCategory, submissions, players,
                   currentTimer, strayTimers, timerState, currentResults,
                   currentResultIndex, categories, taskVars>>

\* ---------------------------------------------------------------- timer ticks
Ticking == strayTimers \cup (IF currentTimer.interval THEN {currentTimer} ELSE {})

\* broadcastTimerUpdate, lines 190-195
broadcastTimerUpdate(r, remaining, phase) ==
    [r EXCEPT !.timerState = [exists |-> TRUE, remaining |-> remaining, phase |-> phase,
                              gameState |-> r.gameState, timestamp |-> now * ClockStep]]

\* the timer object t of the room becomes u
putTimer(r, t, u) ==
    IF r.currentTimer = t
    THEN [r EXCEPT !.currentTimer = u]
    ELSE [r EXCEPT !.strayTimers = (@ \ {t}) \cup (IF u.interval THEN {u} ELSE {})]

\* completion callbacks that do nothing
onComplete_none(r, phase) == r

\* the onComplete callbacks of startSubmissionPhase and startVotingPhase
onComplete(r, phase) ==
    IF phase = "submission" THEN startVotingPhase(r) ELSE startResultsPhase(r)

\* GameTimer.complete
complete(r, t) ==
    IF ~t.isActive THEN r
    ELSE onComplete(putTimer(r, t, cancel(t)), t.phase)

\* the setInterval callback of GameTimer.start
tick(r, t) ==
    LET u == [t EXCEPT !.remaining = @ - 1]
        r1 == broadcastTimerUpdate(putTimer(r, t, u), u.remaining, u.phase)
    IN IF u.remaining <= 0 THEN complete(r1, u) ELSE r1

Tick(t) ==
    /\ t \in Ticking
    /\ Commit(tick(Room, t))
    /\ lastEmit' = NoEmit
    /\ UNCHANGED <<otherVars, round, categories, joins, submits, voteTasks, selects>>

\* ---------------------------------------------------------------- a game in a room
\* The room after create-room by connection 1 and join-room of MaxPlayers players,
\* player p on connection p + 1.
GameNicknames == << <<"A">>, <<"b">>, <<"c">>, <<"d">>, <<"e">>, <<"f">> >>

InitGame ==
    /\ Aside
    /\ connected = 1..(MaxPlayers + 1)
    /\ nextSocket = MaxPlayers + 2
    /\ nextPlayerId = MaxPlayers + 1
    /\ rooms = TRUE
    /\ gmSocketId = 1
    /\ displaySocketId = NoSocket
    /\ gameState = "lobby"
    /\ currentCategory = ""
    /\ round = 0
    /\ roundsTable = 1..round
    /\ submissions = <<>>
    /\ players = [p \in PlayerIds |-> NewPlayer(p + 1, GameNicknames[p])]
    /\ socketToPlayer = [s \in 2..(MaxPlayers + 1) |-> s - 1]
    /\ currentTimer = NoTimer
    /\ strayTimers = {}
    /\ timerState = NoTimerState
    /\ currentResults = <<>>
    /\ currentResultIndex = -1
    /\ categories = { [text |-> PRESET_CATEGORIES[i], isPreset |-> TRUE, used |-> FALSE] :
                        i \in 1..NumPresets }
    /\ joins = {}
    /\ submits = EmptyBag
    /\ voteTasks = EmptyBag
    /\ selects = EmptyBag
    /\ resultTasks = EmptyBag
    /\ timeouts = [k \in TimeoutKinds |-> 0]
    /\ now = 0
    /\ lastEmit = Emit(MaxPlayers + 1, "join-success", "")

\* a request that its handler serves; one that it answers with an error changes
\* nothing but lastEmit
Served == lastEmit'.event # "error"

\* a ballot says yes to every exemplar of the round or no to every one
Ballot(b) == [i \in DOMAIN submissions |-> b]

\* One game in the room: the GM starts it and ends it at any moment, the players
\* submit and vote, handlers resume after their persistence writes in any order,
\* timers tick and the scheduled auto-advance steps run.
Next ==
    \/ \E s \in Sockets : StartLobbyGame(s) /\ Served
    \/ \E t \in DOMAIN selects : SelectRead(t)
    \/ \E t \in DOMAIN selects : SelectDone(t)
    \/ \E s \in Sockets, e \in Exemplars : SubmitExemplar(s, e) /\ Served
    \/ \E t \in DOMAIN submits : SubmitExemplarDone(t)
    \/ \E s \in Sockets, b \in BOOLEAN : SubmitVotes(s, Ballot(b)) /\ Served
    \/ \E t \in DOMAIN voteTasks : VoteStep(t)
    \/ \E t \in DOMAIN resultTasks : ResultsStep(t)
    \/ AutoAdvanceResults
    \/ AutoShowSummary
    \/ AutoShowScoreboard
    \/ PrepareNextRound
    \/ \E s \in Sockets : EndGame(s) /\ Served
    \/ \E t \in Ticking : Tick(t)

Spec == InitGame /\ [][Next]_vars

\* ---------------------------------------------------------------- a round under the clock
\* the moment of the next setInterval callback of a ticking timer, in ms
Due(t) == t.startTime + (t.duration - t.remaining + 1) * 1000

\* Date.now() moves on by ClockStep ms; a callback that is due runs before it does
AdvanceTime ==
    /\ now < MaxNow
    /\ \A t \in Ticking : now * ClockStep < Due(t)
    /\ now' = now + 1
    /\ UNCHANGED <<timerVars, registryVars, connected, nextSocket, nextPlayerId, roomVars, socketToPlayer,
                   categories, taskVars, lastEmit>>

\* The room of InitGame when its first round has just begun: start-lobby-game by the
\* GM has selected the first category and started the submission phase.
InitRound ==
    /\ Aside
    /\ now = 0
    /\ connected = 1..(MaxPlayers + 1)
    /\ nextSocket = MaxPlayers + 2
    /\ nextPlayerId = MaxPlayers + 1
    /\ rooms = TRUE
    /\ gmSocketId = 1
    /\ displaySocketId = NoSocket
    /\ round = 1
    /\ roundsTable = 1..round
    /\ socketToPlayer = [s \in 2..(MaxPlayers + 1) |-> s - 1]
    /\ categories = markCategoryAsUsed(
           { [text |-> PRESET_CATEGORIES[i], isPreset |-> TRUE, used |-> FALSE] :
               i \in 1..NumPresets }, PRESET_CATEGORIES[1])
    /\ joins = {}
    /\ submits = EmptyBag
    /\ voteTasks = EmptyBag
    /\ selects = EmptyBag
    /\ lastEmit = NoEmit
    /\ LET r == startSubmissionPhase(
                    [gameState |-> "lobby", currentCategory |-> "", submissions |-> <<>>,
                     players |-> [p \in PlayerIds |-> NewPlayer(p + 1, GameNicknames[p])],
                     currentTimer |-> NoTimer, strayTimers |-> {},
                     timerState |-> NoTimerState, currentResults |-> <<>>,
                     currentResultIndex |-> -1, resultTasks |-> EmptyBag,
                     timeouts |-> [k \in TimeoutKinds |-> 0]],
                    PRESET_CATEGORIES[1])
       IN /\ gameState = r.gameState
          /\ currentCategory = r.currentCategory
          /\ submissions = r.submissions
          /\ players = r.players
          /\ currentTimer = r.currentTimer
          /\ strayTimers = r.strayTimers
          /\ timerState = r.timerState
          /\ currentResults = r.currentResults
          /\ currentResultIndex = r.currentResultIndex
          /\ resultTasks = r.resultTasks
          /\ timeouts = r.timeouts

\* One round up to its results, with the clock: ticks run when they are due, and
\* players drop out and, once marked disconnected, come back.
NextClock ==
    \/ \E s \in Sockets, e \in Exemplars : SubmitExemplar(s, e) /\ Served
    \/ \E t \in DOMAIN submits : SubmitExemplarDone(t)
    \/ \E s \in Sockets, b \in BOOLEAN : SubmitVotes(s, Ballot(b)) /\ Served
    \/ \E t \in DOMAIN voteTasks : VoteStep(t)
    \/ \E t \in DOMAIN resultTasks : ResultsStep(t)
    \/ \E t \in Ticking : now * ClockStep >= Due(t) /\ Tick(t)
    \/ AdvanceTime
    \/ \E s \in Sockets : Disconnect(s)
    \/ \E s \in Sockets, p \in PlayerIds :
           ~players[p].isConnected /\ ReconnectPlayer(s, p)

SpecClock == InitRound /\ [][NextClock]_vars

\* ---------------------------------------------------------------- scoring a round
\* The voting phase of a round of MaxVoters players in which the first
\* MaxSubmissions or fewer of them submitted before the submission timer expired.
InitVoting ==
    /\ Aside
    /\ now = 0
    /\ connected = 1..(MaxVoters + 1)
    /\ nextSocket = MaxVoters + 2
    /\ nextPlayerId = MaxVoters + 1
    /\ rooms = TRUE
    /\ gmSocketId = 1
    /\ displaySocketId = NoSocket
    /\ round = 1
    /\ roundsTable = 1..round
    /\ socketToPlayer = [s \in 2..(MaxVoters + 1) |-> s - 1]
    /\ categories = markCategoryAsUsed(
           { [text |-> PRESET_CATEGORIES[i], isPreset |-> TRUE, used |-> FALSE] :
               i \in 1..NumPresets }, PRESET_CATEGORIES[1])
    /\ joins = {}
    /\ submits = EmptyBag
    /\ voteTasks = EmptyBag
    /\ selects = EmptyBag
    /\ lastEmit = NoEmit
    /\ \E n \in 1..MaxSubmissions :
         LET r0 == startSubmissionPhase(
                     [gameState |-> "lobby", currentCategory |-> "",
                      submissions |-> <<>>,
                      players |-> [p \in 1..MaxVoters |->
                                      NewPlayer(p + 1, GameNicknames[p])],
                      currentTimer |-> NoTimer, strayTimers |-> {},
                      timerState |-> NoTimerState, currentResults |-> <<>>,
                      currentResultIndex |-> -1, resultTasks |-> EmptyBag,
                      timeouts |-> [k \in TimeoutKinds |-> 0]],
                     PRESET_CATEGORIES[1])
             r1 == [r0 EXCEPT
                      !.submissions = [i \in 1..n |->
                          [playerId |-> i, nickname |-> r0.players[i].nickname,
                           exemplar |-> <<"x">>, votes |-> <<>>]],
                      !.players = [p \in DOMAIN @ |->
                                      [@[p] EXCEPT !.hasSubmitted = (p <= n)]],
                      !.currentTimer.remaining = 1]
             r == tick(r1, r1.currentTimer)
         IN /\ gameState = r.gameState
            /\ currentCategory = r.currentCategory
            /\ submissions = r.submissions
            /\ players = r.players
            /\ currentTimer = r.currentTimer
            /\ strayTimers = r.strayTimers
            /\ timerState = r.timerState
            /\ currentResults = r.currentResults
            /\ currentResultIndex = r.currentResultIndex
            /\ resultTasks = r.resultTasks
            /\ timeouts = r.timeouts

\* The players vote yes or no on each exemplar; the voting timer or the last vote
\* starts the results.
NextScore ==
    \/ \E s \in 1..(MaxVoters + 1), v \in [DOMAIN submissions -> BOOLEAN] :
           SubmitVotes(s, v) /\ Served
    \/ \E t \in DOMAIN voteTasks : VoteStep(t)
    \/ \E t \in DOMAIN resultTasks : ResultsStep(t)
    \/ \E t \in Ticking : Tick(t)

SpecScore == InitVoting /\ [][NextScore]_vars

\* ---------------------------------------------------------------- identity and room lifecycle
NextLobby ==
    \/ Connect
    \/ \E s \in Sockets : CreateRoom(s)
    \/ \E s \in Sockets, n \in Nicknames : JoinRoom(s, n)
    \/ \E j \in joins : JoinRoomDone(j)
    \/ \E j \in joins : JoinRoomFailed(j)
    \/ \E s \in Sockets : Disconnect(s)
    \/ \E s \in Sockets, p \in PlayerIds : ReconnectPlayer(s, p)

SpecLobby == Init /\ [][NextLobby]_vars

\* ---------------------------------------------------------------- claims
ConnectedPlayers == {p \in DOMAIN players : players[p].isConnected}

\* the timers of the room that tick
TickingTimers ==
    (IF currentTimer.interval THEN 1 ELSE 0) + Cardinality({t \in strayTimers : t.interval})

\* C1: at most one timer of the room is active, and no phase start leaves the
\* timer it replaces ticking: every timer the room has stopped referencing was
\* cancelled before the new one started
C1_AtMostOneActiveTimer ==
    /\ TickingTimers <= 1
    /\ strayTimers = {}
    /\ currentTimer.isActive = currentTimer.interval

\* C1 witness: the voting phase began while the submission timer was running (its
\* last tick left a second), and the only timer ticking is the voting timer
C1_Witness ==
    /\ gameState = "voting"
    /\ currentTimer.isActive /\ currentTimer.phase = "voting"
    /\ timerState.exists /\ timerState.phase = "submission" /\ timerState.remaining > 0
    /\ TickingTimers = 1

AllConnectedSubmitted ==
    ConnectedPlayers # {} /\ \A p \in ConnectedPlayers : players[p].hasSubmitted

AllConnectedVoted ==
    ConnectedPlayers # {} /\ \A p \in ConnectedPlayers : players[p].hasVoted

\* C2: in the submitting phase, the submission after which every connected player
\* has submitted moves the room to voting and stops the submission timer
C2_ConnectedSubmittedAdvances ==
    [][ (/\ gameState = "submitting"
         /\ \E p \in DOMAIN players :
               ~players[p].hasSubmitted /\ players'[p].hasSubmitted
         /\ AllConnectedSubmitted')
            => /\ gameState' = "voting"
               /\ ~\E t \in Ticking' : t.phase = "submission"
      ]_vars

\* C3: in the voting phase, the vote after which every connected player has voted
\* moves the room to results and stops the voting timer
C3_ConnectedVotedAdvances ==
    [][ (/\ gameState = "voting"
         /\ \E p \in DOMAIN players : ~players[p].hasVoted /\ players'[p].hasVoted
         /\ AllConnectedVoted')
            => /\ gameState' = "results"
               /\ Ticking' = {}
      ]_vars

\* the result loops that have computed a result in this step
Computed ==
    {u \in DOMAIN resultTasks' : CopiesIn(u, resultTasks') > CopiesIn(u, resultTasks)}

\* C4: whenever the result of a submission is computed, its yes and no counts are
\* those of its vote map, its points are the smaller of the two, and the score of
\* the player who submitted it grows by exactly these points
C4_PointsAreMinYesNo ==
    [][ submissions' = submissions =>
          \A u \in Computed :
            LET sub == (IF u.live THEN submissions ELSE u.subs)[u.idx]
                res == u.results[Len(u.results)]
            IN /\ res.yesCount = Cardinality({v \in DOMAIN sub.votes : sub.votes[v]})
               /\ res.noCount = Cardinality({v \in DOMAIN sub.votes : ~sub.votes[v]})
               /\ res.points =
                      (IF res.yesCount < res.noCount THEN res.yesCount ELSE res.noCount)
               /\ players'[sub.playerId].score = players[sub.playerId].score + res.points
               /\ \A q \in DOMAIN players \ {sub.playerId} :
                      players'[q].score = players[q].score
      ]_vars

\* C4 witness: the results of a round hold a submission with 3 yes and 1 no that
\* earned 1 point, which is the score of the player who submitted it
C4_Witness ==
    /\ gameState = "results"
    /\ \E i \in DOMAIN currentResults :
          /\ currentResults[i].yesCount = 3 /\ currentResults[i].noCount = 1
          /\ currentResults[i].points = 1
          /\ players[submissions[i].playerId].score = 1

\* C5: once the phase is ended it stays ended
C5_EndedIsFinal == [][gameState = "ended" => gameState' = "ended"]_vars

\* C10: the reconnect-success of a room with a timer snapshot reports the saved
\* remaining time less the whole seconds since the snapshot, at least 0, and when
\* these seconds use up the saved time the phase of the snapshot is over once the
\* reconnect has been handled
C10_ReconnectTimerRemaining ==
    [][ \A s \in Sockets, p \in PlayerIds :
          (/\ timerState.exists /\ p \in DOMAIN players /\ s \in connected
           /\ ReconnectPlayer(s, p))
              => LET elapsed == (now * ClockStep - timerState.timestamp) \div 1000
                     saved == timerState.remaining
                 IN /\ lastEmit'.event = "reconnect-success"
                    /\ lastEmit'.timerRemaining =
                           (IF saved - elapsed > 0 THEN saved - elapsed ELSE 0)
                    /\ (elapsed >= saved /\ gameState = timerState.gameState)
                           => gameState' # gameState
      ]_vars

\* C6: no two connected players of the room have nicknames equal ignoring case
C6_ConnectedNicknamesUnique ==
    \A p, q \in ConnectedPlayers :
        p # q => toLowerCase(players[p].nickname) # toLowerCase(players[q].nickname)

\* the holders of a nickname, compared ignoring case
Holders(n) == {p \in DOMAIN players : toLowerCase(players[p].nickname) = toLowerCase(n)}

\* C7: a join-room (a step that answers join-error or leaves a pending join) whose
\* nickname equals, ignoring case, a connected player's is answered "Nickname
\* already taken" and adds no player and no pending join; a join-room whose
\* nickname is held by disconnected players only is taken on, and its player is
\* added when the player record is written
C7_NicknameTakenRejected ==
    [][ /\ (lastEmit'.event = "join-error" \/ joins' # joins) =>
             \A s \in connected, n \in Nicknames :
               (rooms /\ Holders(n) # {} /\ JoinRoom(s, n))
                   => IF Holders(n) \cap ConnectedPlayers # {}
                      THEN /\ lastEmit' = Emit(s, "join-error", "Nickname already taken")
                           /\ UNCHANGED <<players, joins, nextPlayerId, socketToPlayer>>
                      ELSE /\ lastEmit'.event # "join-error"
                           /\ \E j \in joins' \ joins : j.socket = s /\ j.nickname = n
        /\ \A j \in joins :
             JoinRoomDone(j)
                 => /\ j.playerId \notin DOMAIN players
                    /\ DOMAIN players' = DOMAIN players \cup {j.playerId}
                    /\ players'[j.playerId].nickname = trim(j.nickname)
                    /\ players'[j.playerId].isConnected
      ]_vars

\* C7 witness: a nickname was taken on while its holder was disconnected, and a
\* later join with that nickname has been rejected
C7_Witness ==
    /\ lastEmit.event = "join-error" /\ lastEmit.message = "Nickname already taken"
    /\ \E p, q \in DOMAIN players :
          /\ ~players[p].isConnected /\ players[q].isConnected
          /\ players[p].nickname = <<"A">> /\ players[q].nickname = <<"a">>

\* C8: the disconnect of a connection that a player has since left for a newer
\* one leaves the player connected on the newer connection
C8_LatestBindWins ==
    [][ \A s \in Sockets :
          (/\ rooms /\ s \in DOMAIN socketToPlayer
           /\ gmSocketId # s /\ displaySocketId # s
           /\ socketToPlayer[s] \in DOMAIN players
           /\ players[socketToPlayer[s]].isConnected
           /\ players[socketToPlayer[s]].socketId # s
           /\ players[socketToPlayer[s]].socketId \in connected
           /\ Disconnect(s))
              => players'[socketToPlayer[s]] = players[socketToPlayer[s]]
      ]_vars

\* C9: the reconnect of a disconnected player keeps its nickname and score, marks it
\* connected on the new connection, which resolves to it, and adds no player
C9_ReconnectRestoresPlayer ==
    [][ \A s \in Sockets, p \in PlayerIds :
          (/\ rooms /\ p \in DOMAIN players
           /\ ~players[p].isConnected /\ players[p].socketId = NoSocket
           /\ ReconnectPlayer(s, p))
              => /\ players'[p].nickname = players[p].nickname
                 /\ players'[p].score = players[p].score
                 /\ players'[p].isConnected
                 /\ players'[p].socketId = s
                 /\ findPlayerBySocketId(s)' = p
                 /\ DOMAIN players' = DOMAIN players
                 /\ \A q \in DOMAIN players \ {p} : players'[q] = players[q]
                 /\ lastEmit'.event = "reconnect-success"
      ]_vars

\* C9 witness: a player that has scored and was marked disconnected is connected
\* again, on a connection other than the one it joined on, after a reconnect
C9_Witness ==
    /\ lastEmit.event = "reconnect-success"
    /\ \E p \in DOMAIN players :
          /\ players[p].score > 0
          /\ players[p].isConnected
          /\ players[p].socketId \in connected \ {p + 1}
          /\ findPlayerBySocketId(players[p].socketId) = p

\* C11: the disconnect of the connection bound as the room's GM clears the room's
\* GM binding (the grace period that deletes the room starts from that step)
C11_GmDisconnectClearsBinding ==
    [][ \A s \in Sockets :
          (rooms /\ gmSocketId = s /\ Disconnect(s))
              => /\ gmSocketId' = NoSocket
                 /\ timeouts'["gm-grace"] = timeouts["gm-grace"] + 1
      ]_vars

\* C12: the disconnect of a connection mapped to a player (and bound neither as GM
\* nor as display) marks that player disconnected with no connection, keeps its
\* nickname, score and per-round flags and every other player, and leaves the
\* room's phase, round, category, submissions and timer as they were
C12_PlayerDisconnectKeepsRoom ==
    [][ \A s \in Sockets :
          (/\ rooms /\ s \in DOMAIN socketToPlayer
           /\ gmSocketId # s /\ displaySocketId # s
           /\ socketToPlayer[s] \in DOMAIN players
           /\ Disconnect(s))
              => LET p == socketToPlayer[s]
                 IN /\ ~players'[p].isConnected
                    /\ players'[p].socketId = NoSocket
                    /\ players'[p].nickname = players[p].nickname
                    /\ players'[p].score = players[p].score
                    /\ players'[p].hasSubmitted = players[p].hasSubmitted
                    /\ players'[p].hasVoted = players[p].hasVoted
                    /\ DOMAIN players' = DOMAIN players
                    /\ \A q \in DOMAIN players \ {p} : players'[q] = players[q]
                    /\ UNCHANGED <<rooms, gameState, round, currentCategory, submissions,
                                   currentTimer, strayTimers, timerState, gmSocketId,
                                   displaySocketId>>
      ]_vars

\* C12 witness: a player that has submitted was disconnected while the submission
\* timer runs
C12_Witness ==
    /\ lastEmit = NoEmit
    /\ gameState = "submitting"
    /\ currentTimer # NoTimer /\ currentTimer.isActive
    /\ \E p \in DOMAIN players :
          /\ ~players[p].isConnected /\ players[p].socketId = NoSocket
          /\ players[p].hasSubmitted
          /\ p + 1 \notin connected

\* ---------------------------------------------------------------- the display
\* socket.on('join-display'): binds the connection as the room's display
JoinDisplay(s) ==
    /\ s \in connected
    /\ IF ~rooms
       THEN /\ lastEmit' = Emit(s, "error", "Room not found")
            /\ UNCHANGED displaySocketId
       ELSE /\ displaySocketId' = s
            /\ lastEmit' = Emit(s, "display-connected", "")
    /\ UNCHANGED <<timerVars, registryVars, connected, nextSocket, nextPlayerId, rooms, gmSocketId, gameState,
                   currentCategory, round, submissions, players, currentTimer,
                   strayTimers, timerState, currentResults, currentResultIndex,
                   socketToPlayer, categories, taskVars, now>>

\* the room from the start of the server: connections, the GM, the display, the
\* players and the start of the game
NextRoom ==
    \/ Connect
    \/ \E s \in Sockets : CreateRoom(s)
    \/ \E s \in Sockets : JoinDisplay(s)
    \/ \E s \in Sockets, n \in Nicknames : JoinRoom(s, n)
    \/ \E j \in joins : JoinRoomDone(j)
    \/ \E s \in Sockets : Disconnect(s)
    \/ \E s \in Sockets : StartLobbyGame(s)
    \/ \E t \in DOMAIN selects : SelectRead(t)
    \/ \E t \in DOMAIN selects : SelectDone(t)

SpecRoom == Init /\ [][NextRoom]_vars

\* C13: the disconnect of the connection bound as the room's display clears the
\* display binding and changes nothing else of the room
C13_DisplayDisconnectClearsBinding ==
    [][ \A s \in Sockets :
          (rooms /\ displaySocketId = s /\ gmSocketId # s /\ Disconnect(s))
              => /\ displaySocketId' = NoSocket
                 /\ UNCHANGED <<rooms, gameState, players, gmSocketId, currentTimer>>
      ]_vars

\* C18: a start-lobby-game from the GM or the display of a room with fewer than 2
\* players is answered with the error "Need at least 2 players to start" on the
\* calling connection and leaves the room's phase, round, category, pool of
\* categories and timer as they were, with no category selection started
C18_StartNeedsTwoPlayers ==
    [][ \A s \in Sockets :
          (/\ rooms /\ (gmSocketId = s \/ displaySocketId = s)
           /\ Cardinality(DOMAIN players) < 2
           /\ StartLobbyGame(s))
              => /\ lastEmit' = [NoEmit EXCEPT !.to = s, !.event = "error",
                                    !.message = "Need at least 2 players to start"]
                 /\ UNCHANGED <<gameState, round, currentCategory, categories,
                                currentTimer, strayTimers, timerState, selects,
                                submissions, players>>
      ]_vars

\* C18 witness: the start of a room with exactly one player has been rejected
C18_Witness ==
    /\ lastEmit.event = "error"
    /\ lastEmit.message = "Need at least 2 players to start"
    /\ lastEmit.to \in {gmSocketId, displaySocketId} \ {NoSocket}
    /\ Cardinality(DOMAIN players) = 1
    /\ gameState = "lobby" /\ round = 0 /\ selects = EmptyBag

\* C17: a start-lobby-game accepted from the GM or the display while no category is
\* available, which the category selector then fails, leaves the room's phase and
\* round counter as they were
C17_FailedStartKeepsRoom ==
    [][ \A s \in Sockets :
          (/\ rooms /\ (gmSocketId = s \/ displaySocketId = s)
           /\ ~tooFewPlayers
           /\ available = {} /\ selects = EmptyBag
           /\ StartLobbyGame(s))
              => UNCHANGED <<gameState, round, currentCategory>>
      ]_vars

\* ---------------------------------------------------------------- the category pool
\* a category text as the string the categories table stores
RECURSIVE asString(_)
asString(s) == IF s = <<>> THEN "" ELSE Head(s) \o asString(Tail(s))

\* submit-category and host-add-category: category.trim().toLowerCase()
cleanCategory(category) == asString(toLowerCase(trim(category)))

\* the categories the clients send
CategoryInputs == { <<"A", " ">>, <<"b">>, <<" ">> }

\* logCategorySubmission(gameId, playerId, categoryText, false): a new row, unused
logCategorySubmission(cs, text) ==
    cs \cup { [text |-> text, isPreset |-> FALSE, used |-> FALSE] }

\* socket.on('submit-category')
SubmitCategory(s, category) ==
    /\ s \in connected
    /\ IF s \notin DOMAIN socketToPlayer
       THEN /\ lastEmit' = Emit(s, "error", "Not in a room")
            /\ UNCHANGED categories
       ELSE IF ~rooms \/ socketToPlayer[s] \notin DOMAIN players
       THEN /\ lastEmit' = Emit(s, "error", "Player not found")
            /\ UNCHANGED categories
       ELSE IF gameState # "lobby"
       THEN /\ lastEmit' = Emit(s, "error", "Not in lobby phase")
            /\ UNCHANGED categories
       ELSE IF Len(trim(category)) = 0 \/ Len(trim(category)) > 50
       THEN /\ lastEmit' = Emit(s, "error", "Invalid category")
            /\ UNCHANGED categories
       ELSE /\ categories' = logCategorySubmission(categories, cleanCategory(category))
            /\ lastEmit' = Emit(s, "category-submitted", "")
    /\ UNCHANGED <<otherVars, roomVars, taskVars>>

\* socket.on('host-add-category')
HostAddCategory(s, category) ==
    /\ s \in connected
    /\ IF ~findRoomBySocketId(s) \/ displaySocketId # s
       THEN /\ lastEmit' = Emit(s, "error", "Not authorized - display only")
            /\ UNCHANGED categories
       ELSE IF Len(trim(category)) = 0
       THEN /\ lastEmit' = Emit(s, "error", "Category cannot be empty")
            /\ UNCHANGED categories
       ELSE /\ categories' = logCategorySubmission(categories, cleanCategory(category))
            /\ lastEmit' = Emit(s, "category-added", "")
    /\ UNCHANGED <<otherVars, roomVars, taskVars>>

\* a category whose text the categories table does not hold yet
NewText(category) == \A c \in categories : c.text # cleanCategory(category)

\* A game whose rounds the timers alone drive, with no exemplar submitted (so that
\* startResultsPhase ends at once), while the players and the host add categories,
\* each text once, and the host starts rounds: the pool of categories and its
\* selector.
NextPool ==
    \/ \E s \in Sockets : JoinDisplay(s)
    \/ \E s \in Sockets, c \in CategoryInputs :
          NewText(c) /\ SubmitCategory(s, c) /\ Served
    \/ \E s \in Sockets, c \in CategoryInputs :
          NewText(c) /\ HostAddCategory(s, c) /\ Served
    \/ \E s \in Sockets : StartLobbyGame(s) /\ Served
    \/ \E t \in DOMAIN selects : SelectRead(t)
    \/ \E t \in DOMAIN selects : SelectDone(t)
    \/ AutoAdvanceResults
    \/ AutoShowSummary
    \/ AutoShowScoreboard
    \/ PrepareNextRound
    \/ \E t \in Ticking : Tick(t)

SpecPool == InitGame /\ [][NextPool]_vars

\* the entries a selection may read: unused, and those of the players and the host
unusedNonPreset == {c \in available : ~c.isPreset}

C14_NoCategoryServedTwice ==
    [][ \A t \in DOMAIN selects :
          (t.stage = "mark" /\ SelectDone(t))
              => \E c \in available : c.text = t.category
      ]_vars

\* ---------------------------------------------------------------- round after round
\* The room of InitGame when its first round has just begun: start-lobby-game by the
\* GM and the selection, either of the one preset or, when a player has sent
\* submit-category of "A " in the lobby, of the player's entry, which the selection
\* prefers to the preset.
InitAdvance ==
    /\ Aside
    /\ \E submitted \in BOOLEAN :
      LET presets == { [text |-> PRESET_CATEGORIES[i], isPreset |-> TRUE, used |-> FALSE] :
                         i \in 1..NumPresets }
          first == IF submitted THEN cleanCategory(<<"A", " ">>) ELSE PRESET_CATEGORIES[1]
          table == IF submitted THEN logCategorySubmission(presets, first) ELSE presets
          r == startSubmissionPhase(
                    [gameState |-> "lobby", currentCategory |-> "", submissions |-> <<>>,
                     players |-> [p \in PlayerIds |-> NewPlayer(p + 1, GameNicknames[p])],
                     currentTimer |-> NoTimer, strayTimers |-> {},
                     timerState |-> NoTimerState, currentResults |-> <<>>,
                     currentResultIndex |-> -1, resultTasks |-> EmptyBag,
                     timeouts |-> [k \in TimeoutKinds |-> 0]],
                    first)
      IN /\ now = 0
         /\ connected = 1..(MaxPlayers + 1)
         /\ nextSocket = MaxPlayers + 2
         /\ nextPlayerId = MaxPlayers + 1
         /\ rooms = TRUE
         /\ gmSocketId = 1
         /\ displaySocketId = NoSocket
         /\ round = 1
         /\ roundsTable = 1..round
         /\ socketToPlayer = [s \in 2..(MaxPlayers + 1) |-> s - 1]
         /\ categories = markCategoryAsUsed(table, first)
         /\ joins = {}
         /\ submits = EmptyBag
         /\ voteTasks = EmptyBag
         /\ selects = EmptyBag
         /\ lastEmit = NoEmit
         /\ gameState = r.gameState
         /\ currentCategory = r.currentCategory
         /\ submissions = r.submissions
         /\ players = r.players
         /\ currentTimer = r.currentTimer
         /\ strayTimers = r.strayTimers
         /\ timerState = r.timerState
         /\ currentResults = r.currentResults
         /\ currentResultIndex = r.currentResultIndex
         /\ resultTasks = r.resultTasks
         /\ timeouts = r.timeouts

\* The rounds that follow one another without the GM: the players submit and vote
\* in the first round and send nothing after it, the timers tick, the results are
\* shown and the next round is prepared.
NextAdvance ==
    \/ \E t \in DOMAIN selects : SelectRead(t)
    \/ \E t \in DOMAIN selects : SelectDone(t)
    \/ \E s \in Sockets, e \in Exemplars :
          round = 1 /\ SubmitExemplar(s, e) /\ Served
    \/ \E t \in DOMAIN submits : SubmitExemplarDone(t)
    \/ \E s \in Sockets, b \in BOOLEAN :
          round = 1 /\ SubmitVotes(s, Ballot(b)) /\ Served
    \/ \E t \in DOMAIN voteTasks : VoteStep(t)
    \/ \E t \in DOMAIN resultTasks : ResultsStep(t)
    \/ AutoAdvanceResults
    \/ AutoShowSummary
    \/ AutoShowScoreboard
    \/ PrepareNextRound
    \/ \E t \in Ticking : Tick(t)

SpecAdvance == InitAdvance /\ [][NextAdvance]_vars

\* C16: prepareNextRound adds one to the round counter and starts a selection; when
\* the selection finds a category the room goes to submitting with that category,
\* and when it finds none the room goes to waiting-for-category with an empty
\* current category, no submissions and every player's per-round flags reset; the
\* round counter stays what prepareNextRound made it
C16_RoundAdvance ==
    [][ /\ PrepareNextRound
           => /\ round' = round + 1
              /\ \E u \in DOMAIN selects' :
                    /\ u.kind = "next" /\ u.stage = "read"
                    /\ CopiesIn(u, selects') = CopiesIn(u, selects) + 1
        /\ \A t \in DOMAIN selects :
             /\ (t.kind = "next" /\ t.stage = "mark" /\ SelectDone(t))
                   => /\ gameState' = "submitting"
                      /\ currentCategory' = t.category
                      /\ round' = round
             /\ (t.kind = "next" /\ t.stage = "read" /\ available = {} /\ SelectRead(t))
                   => /\ gameState' = "waiting-for-category"
                      /\ currentCategory' = ""
                      /\ submissions' = <<>>
                      /\ \A p \in DOMAIN players' :
                            ~players'[p].hasSubmitted /\ ~players'[p].hasVoted
                      /\ round' = round
      ]_vars

\* ---------------------------------------------------------------- requests refused
\* One round in which every connection, the GM's included, sends submit-exemplar
\* and submit-votes at any moment, whether the handler serves them or not.
NextReject ==
    \/ \E s \in Sockets, e \in Exemplars : SubmitExemplar(s, e)
    \/ \E t \in DOMAIN submits : SubmitExemplarDone(t)
    \/ \E s \in Sockets, b \in BOOLEAN : SubmitVotes(s, Ballot(b))
    \/ \E t \in DOMAIN voteTasks : VoteStep(t)
    \/ \E t \in DOMAIN resultTasks : ResultsStep(t)
    \/ \E t \in Ticking : Tick(t)

SpecReject == InitRound /\ [][NextReject]_vars

\* an exemplar of blanks only
AllBlank(e) == \A i \in DOMAIN e : e[i] = Blank

\* what a refused request leaves alone: the room, its players, submissions, votes
\* and timers, and the handlers under way
refusedKeeps ==
    UNCHANGED <<roomVars, socketToPlayer, categories, taskVars>>

\* C19: a submit-exemplar from a connection with no bound player, outside the
\* submitting phase, from a player whose hasSubmitted is set, or with a blank
\* exemplar, and a submit-votes from a connection with no bound player, outside
\* the voting phase, or from a player whose hasVoted is set, are answered with an
\* error on the sending connection and nothing else, and leave the room as it was
C19_RefusedSubmitChangesNothing ==
    [][ \A s \in connected :
          /\ \A e \in Exemplars :
               (/\ \/ s \notin DOMAIN socketToPlayer
                   \/ gameState # "submitting"
                   \/ players[socketToPlayer[s]].hasSubmitted
                   \/ AllBlank(e)
                /\ SubmitExemplar(s, e))
                   => /\ lastEmit'.event = "error" /\ lastEmit'.to = s
                      /\ refusedKeeps
          /\ \A b \in BOOLEAN :
               (/\ \/ s \notin DOMAIN socketToPlayer
                   \/ gameState # "voting"
                   \/ players[socketToPlayer[s]].hasVoted
                /\ SubmitVotes(s, Ballot(b)))
                   => /\ lastEmit'.event = "error" /\ lastEmit'.to = s
                      /\ refusedKeeps
      ]_vars

\* C19 witness: a player that has submitted was told "Already submitted" while the
\* round was still taking exemplars
C19_Witness ==
    /\ lastEmit.event = "error" /\ lastEmit.message = "Already submitted"
    /\ gameState = "submitting"
    /\ lastEmit.to \in DOMAIN socketToPlayer
    /\ players[socketToPlayer[lastEmit.to]].hasSubmitted
    /\ Len(submissions) = 1

\* ---------------------------------------------------------------- persistence writes that fail
\* socket.on('submit-exemplar') after logSubmission rejected: the catch block
SubmitExemplarFailed(t) ==
    /\ BagIn(t, submits)
    /\ submits' = RemoveTask(submits, t)
    /\ lastEmit' = Emit(t.socket, "error", "Failed to submit exemplar")
    /\ UNCHANGED <<otherVars, round, gameState, currentCategory, submissions, players,
                   currentTimer, strayTimers, timerState, currentResults,
                   currentResultIndex, categories, joins, voteTasks, selects,
                   resultTasks, timeouts>>

\* socket.on('submit-votes') after a logVote rejected: the catch block, with the
\* votes set so far kept and hasVoted not set
SubmitVotesFailed(t) ==
    /\ BagIn(t, voteTasks)
    /\ voteTasks' = RemoveTask(voteTasks, t)
    /\ lastEmit' = Emit(t.socket, "error", "Failed to submit votes")
    /\ UNCHANGED <<otherVars, round, gameState, currentCategory, submissions, players,
                   currentTimer, strayTimers, timerState, currentResults,
                   currentResultIndex, categories, joins, submits, selects,
                   resultTasks, timeouts>>

\* startResultsPhase after updatePlayerFinalScore or updateSubmissionResults
\* rejected: the rejection leaves the function, nothing of lines 718-746 runs
ResultsFailed(t) ==
    /\ BagIn(t, resultTasks)
    /\ resultTasks' = RemoveTask(resultTasks, t)
    /\ lastEmit' = NoEmit
    /\ UNCHANGED <<otherVars, round, gameState, currentCategory, submissions, players,
                   currentTimer, strayTimers, timerState, currentResults,
                   currentResultIndex, categories, joins, submits, voteTasks, selects,
                   timeouts>>

\* prepareNextRound and start-lobby-game after logRoundStarted rejected: the
\* category is marked used and startSubmissionPhase is not called
RoundStartFailed(t) ==
    /\ BagIn(t, selects) /\ t.stage = "mark"
    /\ selects' = RemoveTask(selects, t)
    /\ categories' = markCategoryAsUsed(categories, t.category)
    /\ lastEmit' = NoEmit
    /\ UNCHANGED <<otherVars, round, gameState, currentCategory, submissions, players,
                   currentTimer, strayTimers, timerState, currentResults,
                   currentResultIndex, joins, submits, voteTasks, resultTasks,
                   timeouts>>

\* The rounds of NextAdvance with a database whose writes may be rejected; the
\* players vote yes on every exemplar.
NextFail ==
    \/ \E t \in DOMAIN selects : SelectRead(t)
    \/ \E t \in DOMAIN selects : SelectDone(t)
    \/ \E t \in DOMAIN selects : RoundStartFailed(t)
    \/ \E s \in Sockets, e \in Exemplars :
          round = 1 /\ SubmitExemplar(s, e) /\ Served
    \/ \E t \in DOMAIN submits : SubmitExemplarDone(t)
    \/ \E t \in DOMAIN submits : SubmitExemplarFailed(t)
    \/ \E s \in Sockets : round = 1 /\ SubmitVotes(s, Ballot(TRUE)) /\ Served
    \/ \E t \in DOMAIN voteTasks : VoteStep(t)
    \/ \E t \in DOMAIN voteTasks : SubmitVotesFailed(t)
    \/ \E t \in DOMAIN resultTasks : ResultsStep(t)
    \/ \E t \in DOMAIN resultTasks : ResultsFailed(t)
    \/ AutoAdvanceResults
    \/ AutoShowSummary
    \/ AutoShowScoreboard
    \/ PrepareNextRound
    \/ \E t \in Ticking : Tick(t)

SpecFail == InitAdvance /\ [][NextFail]_vars

\* C20: whether or not its persistence write succeeds, a submit-exemplar handler
\* that ends has recorded the player's submission and set hasSubmitted, a
\* startResultsPhase that ends has scheduled the first auto-advance of the results,
\* and a selection that ends with a category has started the submission phase
C20_FailedWriteDoesNotBlock ==
    [][ /\ \A t \in DOMAIN submits :
             CopiesIn(t, submits') < CopiesIn(t, submits)
                 => /\ players'[t.playerId].hasSubmitted
                    /\ \E i \in DOMAIN submissions' : submissions'[i].playerId = t.playerId
        /\ BagCardinality(resultTasks') < BagCardinality(resultTasks)
               => timeouts'["advance"] = timeouts["advance"] + 1
        /\ \A t \in DOMAIN selects :
             (t.stage = "mark" /\ CopiesIn(t, selects') < CopiesIn(t, selects))
                 => gameState' = "submitting" /\ currentCategory' = t.category
      ]_vars

\* C21: every player's score is a natural number, and no step, whatever handler or
\* callback takes it, removes a player or lowers a score
C21_ScoreNeverDecreases ==
    [][ /\ \A p \in DOMAIN players : players[p].score \in Nat
        /\ \A p \in DOMAIN players :
              /\ p \in DOMAIN players'
              /\ players'[p].score \in Nat
              /\ players'[p].score >= players[p].score
      ]_vars

\* C21 witness: the results of the round have given a player points, after which
\* the player was disconnected and has reconnected with the score kept
C21_Witness ==
    /\ gameState = "results"
    /\ currentResults # <<>>
    /\ lastEmit.event = "reconnect-success"
    /\ \E p \in DOMAIN players :
          /\ players[p].score > 0
          /\ players[p].socketId = lastEmit.to
          /\ \E i \in DOMAIN currentResults : currentResults[i].points > 0

\* C22: a step that takes the room into voting leaves a running voting timer whose
\* duration is the larger of votingMinimum and the number of submissions of the
\* round times votingPerExemplar
C22_VotingDuration ==
    [][ (gameState # "voting" /\ gameState' = "voting")
            => LET n == Len(submissions')
               IN /\ currentTimer'.phase = "voting"
                  /\ currentTimer'.isActive
                  /\ currentTimer'.remaining = currentTimer'.duration
                  /\ currentTimer'.duration =
                        (IF n * VotingPerExemplar > VotingMinimum
                         THEN n * VotingPerExemplar ELSE VotingMinimum)
      ]_vars

\* C22 witness: voting has just begun on so many submissions that their number
\* times votingPerExemplar exceeds votingMinimum
C22_Witness ==
    /\ gameState = "voting"
    /\ Len(submissions) * VotingPerExemplar > VotingMinimum
    /\ currentTimer.phase = "voting" /\ currentTimer.isActive
    /\ currentTimer.remaining = currentTimer.duration
    /\ currentTimer.duration = Len(submissions) * VotingPerExemplar

\* the steps of the display sequence that are under way or scheduled: results being
\* computed, and the pending callbacks of autoAdvanceResults, autoShowSummary,
\* autoShowScoreboard and prepareNextRound
sequenceSteps ==
    BagCardinality(resultTasks) + timeouts["advance"] + timeouts["summary"]
        + timeouts["scoreboard"] + timeouts["next"]

\* C23: the room runs one display sequence at a time, so that each result is
\* revealed once and one summary, one scoreboard and one round advance follow: at
\* most one step of the sequence is under way or scheduled, and a reveal moves the
\* index of the shown result on by one
C23_OneDisplaySequence ==
    /\ sequenceSteps <= 1
    /\ currentResultIndex \in -1..(Len(currentResults) - 1)

\* ---------------------------------------------------------------- a GameTimer on its own
\* One GameTimer object, its methods called in any order, its setInterval callback
\* run when it is due, and its onComplete and onTick callbacks counted.
MaxDuration == 3

InitTimer ==
    /\ now = 0
    /\ connected = {}
    /\ nextSocket = 1
    /\ nextPlayerId = 1
    /\ rooms = FALSE
    /\ gmSocketId = NoSocket
    /\ displaySocketId = NoSocket
    /\ gameState = "lobby"
    /\ currentCategory = <<>>
    /\ round = 0
    /\ roundsTable = 1..round
    /\ submissions = <<>>
    /\ players = <<>>
    /\ socketToPlayer = <<>>
    /\ currentTimer = NoTimer
    /\ strayTimers = {}
    /\ timerState = NoTimerState
    /\ currentResults = <<>>
    /\ currentResultIndex = -1
    /\ categories = {}
    /\ joins = {}
    /\ submits = EmptyBag
    /\ voteTasks = EmptyBag
    /\ selects = EmptyBag
    /\ resultTasks = EmptyBag
    /\ timeouts = [k \in TimeoutKinds |-> 0]
    /\ lastEmit = NoEmit
    /\ \E d \in 1..MaxDuration : timer = GameTimer(d, "submission")
    /\ onCompleteCalls = 0
    /\ onTickCalls = 0
    /\ savedState = NoSavedState
    /\ tickDue = 0
    /\ lastCall = ""
    /\ roomsByCode = <<>>
    /\ creating = {}
    /\ gamesTable = <<>>
    /\ submissionsTable = {}

restVars == <<connected, nextSocket, nextPlayerId, roomVars, socketToPlayer,
              categories, taskVars, lastEmit, registryVars>>

\* timer.start(): setInterval(..., 1000) runs first one second after the call
TimerStart ==
    /\ timer' = start(timer)
    /\ tickDue' = IF timer.isActive THEN tickDue ELSE now * ClockStep + 1000
    /\ lastCall' = "start"
    /\ UNCHANGED <<onCompleteCalls, onTickCalls, savedState, now, restVars>>

\* timer.cancel()
TimerCancel ==
    /\ timer' = cancel(timer)
    /\ lastCall' = "cancel"
    /\ UNCHANGED <<onCompleteCalls, onTickCalls, savedState, tickDue, now, restVars>>

\* GameTimer.complete, lines 58-67: the timer after the call, and whether onComplete ran
completeTimer(t) ==
    IF ~t.isActive THEN [timer |-> t, completed |-> 0]
    ELSE [timer |-> cancel(t), completed |-> 1]

\* the setInterval callback of GameTimer.start, lines 46-55
TimerTick ==
    /\ timer.interval
    /\ now * ClockStep >= tickDue
    /\ LET u == [timer EXCEPT !.remaining = @ - 1]
           c == IF u.remaining <= 0 THEN completeTimer(u)
                ELSE [timer |-> u, completed |-> 0]
       IN /\ timer' = c.timer
          /\ onTickCalls' = onTickCalls + 1
          /\ onCompleteCalls' = onCompleteCalls + c.completed
    /\ tickDue' = tickDue + 1000
    /\ lastCall' = "tick"
    /\ UNCHANGED <<savedState, now, restVars>>

\* Date.now() moves on by ClockStep ms; an interval callback that is due runs first
TimerAdvance ==
    /\ now < MaxNow
    /\ timer.interval => now * ClockStep < tickDue
    /\ now' = now + 1
    /\ lastCall' = ""
    /\ UNCHANGED <<timer, onCompleteCalls, onTickCalls, savedState, tickDue, restVars>>

NextTimer ==
    \/ TimerStart
    \/ TimerCancel
    \/ TimerTick
    \/ TimerAdvance

SpecTimer == InitTimer /\ [][NextTimer]_vars

\* C24: the completion callback of a timer runs at most once, whatever the order of
\* start, cancel and ticks; it runs in a tick that takes remaining to zero while the
\* timer is active and leaves the timer inactive with its interval cleared; start on
\* an active timer changes nothing of the timer.
C24_CompletesAtMostOnce ==
    /\ onCompleteCalls <= 1
    /\ timer.interval => timer.isActive
    /\ timer.isActive => start(timer) = timer

\* C25: a cancel invokes neither callback and leaves the timer inactive, a cancel of
\* the timer it leaves changes nothing, and while the timer is inactive no step
\* invokes its tick callback or its completion callback.
C25_CancelStopsTimer ==
    [][ /\ lastCall' = "cancel"
            => /\ onCompleteCalls' = onCompleteCalls
               /\ onTickCalls' = onTickCalls
               /\ ~timer'.isActive
               /\ cancel(timer') = timer'
        /\ ~timer.isActive
            => /\ onTickCalls' = onTickCalls
               /\ onCompleteCalls' = onCompleteCalls
      ]_vars

\* a timer cancelled after its first tick, at the moment its second tick was due
C25_Witness ==
    /\ lastCall = "cancel"
    /\ onTickCalls >= 1
    /\ onCompleteCalls = 0
    /\ timer.remaining > 0
    /\ now * ClockStep >= tickDue

\* ---------------------------------------------------------------- snapshot and restore
MaxCompletions == 2

\* GameTimer.restoreState, lines 87-100, called on timer t at Date.now() = ms:
\* the timer after the call, and whether onComplete ran
restoreState(t, saved, ms) ==
    IF ~saved.isActive THEN [timer |-> t, completed |-> 0]
    ELSE LET elapsed == (ms - saved.startTime) \div 1000
             u == [t EXCEPT !.remaining = Max(0, saved.remaining - elapsed),
                            !.phase = saved.phase]
         IN IF u.remaining > 0
            THEN [timer |-> start(u), completed |-> 0]
            ELSE completeTimer(u)

\* timer.getState()
GetState ==
    /\ savedState' = getState(timer)
    /\ lastCall' = "getState"
    /\ UNCHANGED <<timer, onCompleteCalls, onTickCalls, tickDue, now, restVars>>

\* restoreState(savedState) on the timer itself, or on a timer constructed anew
\* with the same arguments, which then stands for it
RestoreState(fresh) ==
    /\ savedState # NoSavedState
    /\ onCompleteCalls < MaxCompletions
    /\ LET t == IF fresh THEN GameTimer(timer.duration, timer.phase) ELSE timer
           c == restoreState(t, savedState, now * ClockStep)
       IN /\ timer' = c.timer
          /\ onCompleteCalls' = onCompleteCalls + c.completed
          /\ tickDue' = IF c.timer.interval /\ ~t.interval
                        THEN now * ClockStep + 1000 ELSE tickDue
    /\ lastCall' = "restoreState"
    /\ UNCHANGED <<onTickCalls, savedState, now, restVars>>

NextSnapshot ==
    \/ TimerStart
    \/ TimerTick
    \/ TimerAdvance
    \/ GetState
    \/ \E fresh \in BOOLEAN : RestoreState(fresh)

SpecSnapshot == InitTimer /\ [][NextSnapshot]_vars

\* C26: restoring a snapshot of a running timer that has not completed gives the
\* timer the remaining time duration - whole seconds since the timer's start,
\* and 0 when that is negative.
C26_RestoreGivesTrueRemaining ==
    [][ (lastCall' = "restoreState" /\ savedState.isActive /\ onCompleteCalls = 0)
            => timer'.remaining =
                   Max(0, timer.duration - (now * ClockStep - savedState.startTime) \div 1000)
      ]_vars

\* ---------------------------------------------------------------- the round summary
MaxResults == 7

\* the votes a submission can have collected: 1 yes 1 no, 3 yes 1 no, 2 yes
Tallies == { <<TRUE, FALSE>>, <<TRUE, TRUE, TRUE, FALSE>>, <<TRUE, TRUE>> }

\* the nickname of player p in a room of MaxResults players
longName(p) == [i \in 1..p |-> "a"]

\* A room with a display whose round 1 had n submissions, one of each player, all
\* scored and revealed: autoAdvanceResults has just scheduled autoShowSummary.
InitSummary ==
    /\ Aside
    /\ now = 0
    /\ \E n \in 0..MaxResults : \E tally \in [1..n -> Tallies] :
         LET subs == [i \in 1..n |->
                         [playerId |-> i, nickname |-> longName(i),
                          exemplar |-> <<"x">>, votes |-> tally[i]]]
         IN /\ connected = 1..(MaxResults + 2)
            /\ nextSocket = MaxResults + 3
            /\ nextPlayerId = MaxResults + 1
            /\ socketToPlayer = [s \in 3..(MaxResults + 2) |-> s - 2]
            /\ players = [p \in 1..MaxResults |->
                            [NewPlayer(p + 2, longName(p)) EXCEPT
                               !.hasSubmitted = (p <= n), !.hasVoted = TRUE,
                               !.score = IF p <= n THEN points(tally[p]) ELSE 0]]
            /\ submissions = subs
            /\ currentResults = [i \in 1..n |-> resultOf(subs[i])]
            /\ currentResultIndex = n - 1
            /\ currentTimer = cancel(start(GameTimer(votingTime(n), "voting")))
    /\ rooms = TRUE
    /\ gmSocketId = 1
    /\ displaySocketId = 2
    /\ gameState = "results"
    /\ currentCategory = PRESET_CATEGORIES[1]
    /\ round = 1
    /\ roundsTable = 1..round
    /\ strayTimers = {}
    /\ timerState = NoTimerState
    /\ categories = markCategoryAsUsed(
           { [text |-> PRESET_CATEGORIES[i], isPreset |-> TRUE, used |-> FALSE] :
               i \in 1..NumPresets }, PRESET_CATEGORIES[1])
    /\ joins = {}
    /\ submits = EmptyBag
    /\ voteTasks = EmptyBag
    /\ selects = EmptyBag
    /\ resultTasks = EmptyBag
    /\ timeouts = [k \in TimeoutKinds |-> IF k = "summary" THEN 1 ELSE 0]
    /\ lastEmit = NoEmit

NextSummary ==
    \/ AutoShowSummary
    \/ AutoShowScoreboard

SpecSummary == InitSummary /\ [][NextSummary]_vars

\* s is ordered by points descending, equal points by |yes - no| ascending
Ranked(s) ==
    \A i, j \in DOMAIN s :
        i < j => \/ s[i].points > s[j].points
                 \/ /\ s[i].points = s[j].points
                    /\ controversy(s[i]) <= controversy(s[j])

\* s and t hold the same results the same number of times
SameResults(s, t) ==
    /\ Len(s) = Len(t)
    /\ \A x \in {s[i] : i \in DOMAIN s} \cup {t[i] : i \in DOMAIN t} :
          Cardinality({i \in DOMAIN s : s[i] = x}) = Cardinality({i \in DOMAIN t : t[i] = x})

\* C27: the summary sent to the display has showAll true and the whole ranking when
\* there are at most 6 results; with more it has showAll false, the first 3 and the
\* last 3 of the ranking; the ranking holds the round's results ordered by points
\* descending, equal points by |yes - no| ascending.
C27_SummaryShape ==
    lastEmit.event = "show-enhanced-summary"
        => LET d == lastEmit.data
               n == Len(currentResults)
           IN IF n <= 6
              THEN /\ d.showAll
                   /\ Ranked(d.allResults)
                   /\ SameResults(d.allResults, currentResults)
              ELSE /\ ~d.showAll
                   /\ Len(d.topResults) = 3
                   /\ Len(d.bottomResults) = 3
                   /\ \E middle \in [1..(n - 6) -> {currentResults[i] : i \in 1..n}] :
                         LET ranking == d.topResults \o middle \o d.bottomResults
                         IN Ranked(ranking) /\ SameResults(ranking, currentResults)

\* the summary of seven results, two of them with equal points and different |yes - no|
C27_Witness ==
    /\ lastEmit.event = "show-enhanced-summary"
    /\ Len(currentResults) = 7
    /\ ~lastEmit.data.showAll
    /\ \E i, j \in 1..3 :
          /\ lastEmit.data.topResults[i].points = lastEmit.data.topResults[j].points
          /\ controversy(lastEmit.data.topResults[i]) < controversy(lastEmit.data.topResults[j])
    /\ lastEmit.data.topResults[1].points > lastEmit.data.bottomResults[3].points

\* the lists of results a summary shows
shownLists(d) == IF d.showAll THEN {d.allResults} ELSE {d.topResults, d.bottomResults}

\* C28 as stated: in each list of the summary, of two results with equal points the
\* one with the larger |yes - no| comes first.
C28_LargerControversyFirst ==
    lastEmit.event = "show-enhanced-summary"
        => \A s \in shownLists(lastEmit.data) : \A i, j \in DOMAIN s :
              (i < j /\ s[i].points = s[j].points)
                  => controversy(s[i]) >= controversy(s[j])

\* C28 as amended: in each list of the summary, of two results with equal points the
\* one with the smaller |yes - no| comes first.
C28_SmallerControversyFirst ==
    lastEmit.event = "show-enhanced-summary"
        => \A s \in shownLists(lastEmit.data) : \A i, j \in DOMAIN s :
              (i < j /\ s[i].points = s[j].points)
                  => controversy(s[i]) <= controversy(s[j])

\* a summary of all results in which the 3-to-1 result was submitted before the
\* 1-to-1 result of the same points and is shown after it
C28_Witness ==
    /\ lastEmit.event = "show-enhanced-summary"
    /\ lastEmit.data.showAll
    /\ \E i, j \in DOMAIN currentResults :
          /\ i < j
          /\ currentResults[i].points = currentResults[j].points
          /\ controversy(currentResults[i]) > controversy(currentResults[j])
    /\ \E i, j \in DOMAIN lastEmit.data.allResults :
          /\ i < j
          /\ lastEmit.data.allResults[i].points = lastEmit.data.allResults[j].points
          /\ controversy(lastEmit.data.allResults[i]) < controversy(lastEmit.data.allResults[j])

\* ---------------------------------------------------------------- who may start and end
\* A room from its creation on: connections join as players or as the display, and
\* any connection asks for the start and for the end of the game.
NextAuth ==
    \/ Connect
    \/ \E s \in Sockets : CreateRoom(s)
    \/ \E s \in Sockets : JoinDisplay(s)
    \/ \E s \in Sockets, n \in Nicknames : JoinRoom(s, n)
    \/ \E j \in joins : JoinRoomDone(j)
    \/ \E s \in Sockets : StartLobbyGame(s)
    \/ \E s \in Sockets : EndGame(s)
    \/ \E t \in DOMAIN selects : SelectRead(t)
    \/ \E t \in DOMAIN selects : SelectDone(t)

SpecAuth == Init /\ [][NextAuth]_vars

\* the handler answered connection s with 'Not authorized' and left the room alone
notAuthorized(s) ==
    /\ lastEmit' = Emit(s, "error", "Not authorized")
    /\ UNCHANGED <<roomVars, categories, taskVars, socketToPlayer>>

\* C29: end-game from a connection that is not the room's GM, and start-lobby-game
\* from one that is neither its GM nor its display, is answered with an error to
\* that connection and changes nothing of the room; the game ends only in an
\* end-game of the GM, and a start is taken up only from the GM or the display.
C29_OnlyGmEndsOnlyGmOrDisplayStarts ==
    [][ /\ \A s \in Sockets :
              /\ (EndGame(s) /\ gmSocketId # s) => notAuthorized(s)
              /\ (StartLobbyGame(s) /\ gmSocketId # s /\ displaySocketId # s)
                    => notAuthorized(s)
        /\ (gameState # "ended" /\ gameState' = "ended")
              => gmSocketId \in connected /\ EndGame(gmSocketId)
        /\ (round = 0 /\ round' = 1)
              => \E s \in connected \cap {gmSocketId, displaySocketId} : StartLobbyGame(s)
      ]_vars

\* a player of the room was just refused, in a room that its GM could have ended
\* and its display could have started
C29_Witness ==
    /\ lastEmit.event = "error" /\ lastEmit.message = "Not authorized"
    /\ findPlayerBySocketId(lastEmit.to) # NoPlayer
    /\ lastEmit.to # gmSocketId /\ lastEmit.to # displaySocketId
    /\ gmSocketId \in connected
    /\ displaySocketId \in connected
    /\ gameState = "lobby"

\* ---------------------------------------------------------------- the rooms of a process
\* Several create-room requests at once: the rooms Map, the games table and the
\* handlers suspended between generateRoomCode and rooms.set.
Codes == { "AAAA", "BBBB" }
MaxCreating == 2

InitRegistry ==
    /\ now = 0
    /\ connected = Sockets
    /\ nextSocket = MaxSockets + 1
    /\ nextPlayerId = 1
    /\ rooms = FALSE
    /\ gmSocketId = NoSocket
    /\ displaySocketId = NoSocket
    /\ gameState = "lobby"
    /\ currentCategory = <<>>
    /\ round = 0
    /\ roundsTable = 1..round
    /\ submissions = <<>>
    /\ players = <<>>
    /\ socketToPlayer = <<>>
    /\ currentTimer = NoTimer
    /\ strayTimers = {}
    /\ timerState = NoTimerState
    /\ currentResults = <<>>
    /\ currentResultIndex = -1
    /\ categories = {}
    /\ joins = {}
    /\ submits = EmptyBag
    /\ voteTasks = EmptyBag
    /\ selects = EmptyBag
    /\ resultTasks = EmptyBag
    /\ timeouts = [k \in TimeoutKinds |-> 0]
    /\ lastEmit = NoEmit
    /\ timer = NoTimer
    /\ onCompleteCalls = 0
    /\ onTickCalls = 0
    /\ savedState = NoSavedState
    /\ tickDue = 0
    /\ lastCall = ""
    /\ roomsByCode = <<>>
    /\ creating = {}
    /\ gamesTable = <<>>
    /\ submissionsTable = {}

oneRoomVars == <<connected, nextSocket, nextPlayerId, roomVars, socketToPlayer,
                 categories, taskVars, now, timerVars>>

\* createRoom(code), lines 114-144, with the fields the registry is about
createRoom(code) ==
    [code |-> code, dbGameId |-> 0, players |-> {}, gmSocketId |-> NoSocket,
     gameState |-> "lobby", round |-> 0]

\* a games table without the UNIQUE constraint on room_code
roomCodeTaken_never(code) == FALSE

\* games.room_code is UNIQUE (line 891): an INSERT of a code the table has fails
roomCodeTaken(code) == \E i \in DOMAIN gamesTable : gamesTable[i] = code

\* create-room up to await logGameCreated: generateRoomCode() drew `code`,
\* and the do-while loop drew again while rooms.has(roomCode)
CreateRoomRequest(s, code) ==
    /\ s \in connected
    /\ Cardinality(creating) < MaxCreating
    /\ code \notin DOMAIN roomsByCode
    /\ LET room == [createRoom(code) EXCEPT !.gmSocketId = s]
       IN /\ [room |-> room, stage |-> "logGameCreated"] \notin creating
          /\ creating' = creating \cup {[room |-> room, stage |-> "logGameCreated"]}
    /\ lastEmit' = NoEmit
    /\ UNCHANGED <<roomsByCode, gamesTable, submissionsTable, roundsTable, oneRoomVars>>

\* logGameCreated settles: the INSERT gives the row id, or is rejected and the
\* handler ends there
LogGameCreated(t) ==
    /\ t \in creating /\ t.stage = "logGameCreated"
    /\ IF roomCodeTaken(t.room.code)
       THEN /\ creating' = creating \ {t}
            /\ UNCHANGED gamesTable
       ELSE /\ gamesTable' = Append(gamesTable, t.room.code)
            /\ creating' = (creating \ {t}) \cup
                  {[room |-> [t.room EXCEPT !.dbGameId = Len(gamesTable) + 1],
                    stage |-> "initializePresetCategories"]}
    /\ lastEmit' = NoEmit
    /\ UNCHANGED <<roomsByCode, submissionsTable, roundsTable, oneRoomVars>>

\* initializePresetCategories resolves: rooms.set(roomCode, room), room-created
CreateRoomRegistered(t) ==
    /\ t \in creating /\ t.stage = "initializePresetCategories"
    /\ roomsByCode' = [c \in DOMAIN roomsByCode \cup {t.room.code} |->
                          IF c = t.room.code THEN t.room ELSE roomsByCode[c]]
    /\ creating' = creating \ {t}
    /\ lastEmit' = Emit(t.room.gmSocketId, "room-created", "")
    /\ UNCHANGED <<gamesTable, submissionsTable, roundsTable, oneRoomVars>>

\* initializePresetCategories rejects: the handler ends before rooms.set
PresetCategoriesFailed(t) ==
    /\ t \in creating /\ t.stage = "initializePresetCategories"
    /\ creating' = creating \ {t}
    /\ lastEmit' = NoEmit
    /\ UNCHANGED <<roomsByCode, gamesTable, submissionsTable, roundsTable, oneRoomVars>>

\* join-room of connection s in the room of `code`, as far as the registry goes
RegistryJoin(s, code) ==
    /\ s \in connected
    /\ code \in DOMAIN roomsByCode
    /\ s \notin roomsByCode[code].players
    /\ roomsByCode[code].gmSocketId # s
    /\ roomsByCode' = [roomsByCode EXCEPT ![code].players = @ \cup {s}]
    /\ lastEmit' = Emit(s, "join-success", "")
    /\ UNCHANGED <<creating, gamesTable, submissionsTable, roundsTable, oneRoomVars>>

NextRegistry ==
    \/ \E s \in Sockets, code \in Codes : CreateRoomRequest(s, code)
    \/ \E t \in creating : LogGameCreated(t)
    \/ \E t \in creating : CreateRoomRegistered(t)
    \/ \E t \in creating : PresetCategoriesFailed(t)
    \/ \E s \in Sockets, code \in Codes : RegistryJoin(s, code)

SpecRegistry == InitRegistry /\ [][NextRegistry]_vars

\* C30: a room of the rooms Map stays under its code as the same room (same row of
\* the games table, same GM, its players kept), whatever create-room requests are
\* under way; a room that appears in the Map is in lobby, in round 0, without players.
C30_CreateNeverReplaces ==
    [][ /\ \A c \in DOMAIN roomsByCode :
              /\ c \in DOMAIN roomsByCode'
              /\ roomsByCode'[c].dbGameId = roomsByCode[c].dbGameId
              /\ roomsByCode'[c].gmSocketId = roomsByCode[c].gmSocketId
              /\ roomsByCode[c].players \subseteq roomsByCode'[c].players
        /\ \A c \in DOMAIN roomsByCode' \ DOMAIN roomsByCode :
              /\ roomsByCode'[c].code = c
              /\ roomsByCode'[c].gameState = "lobby"
              /\ roomsByCode'[c].round = 0
              /\ roomsByCode'[c].players = {}
      ]_vars

\* two requests drew the same code while neither room was registered; one of them
\* has registered its room, which a player has joined, and the other has ended
C30_Witness ==
    /\ \E c \in DOMAIN roomsByCode :
          /\ roomsByCode[c].players # {}
          /\ Len(gamesTable) = 1
    /\ creating = {}
    /\ lastEmit = NoEmit

\* ---------------------------------------------------------------- timers alone
\* A round in which no player submits or votes: connections close, players
\* reconnect, and the setInterval callbacks of the timers keep running.
NextIdle ==
    \/ \E t \in Ticking : Tick(t)
    \/ \E s \in Sockets : Disconnect(s)
    \/ \E s \in Sockets, p \in PlayerIds :
           ~players[p].isConnected /\ ReconnectPlayer(s, p)

\* setInterval runs the callback of a timer whose interval is set
SpecIdle ==
    InitRound /\ [][NextIdle]_vars /\ WF_vars(\E t \in Ticking : Tick(t))

\* C31: with no submission and no vote, a room in submitting comes to voting and
\* a room in voting comes to results, whatever disconnects and reconnects happen.
C31_TimersDriveRound ==
    /\ (gameState = "submitting") ~> (gameState = "voting")
    /\ (gameState = "voting") ~> (gameState = "results")

\* the results of a round nobody took part in, reached with a player disconnected
C31_Witness ==
    /\ gameState = "results"
    /\ submissions = <<>>
    /\ \A p \in DOMAIN players : ~players[p].hasVoted
    /\ \E p \in DOMAIN players : ~players[p].isConnected
    /\ ~currentTimer.isActive
    /\ currentTimer.phase = "voting" /\ currentTimer.remaining = 0

\* the reads and writes of the categories table settle
SpecPoolFair ==
    /\ SpecPool
    /\ WF_vars(\E t \in DOMAIN selects : SelectRead(t))
    /\ WF_vars(\E t \in DOMAIN selects : SelectDone(t))

\* C32: a room waiting for a category whose pool has an unused category and whose
\* GM or display has sent start-lobby-game comes to the submitting phase with a
\* running submission timer; the start takes its category from the unused ones of
\* the pool, and the round it starts has that category.
C32_StartAfterCategoryAdded ==
    /\ (/\ gameState = "waiting-for-category"
        /\ available # {}
        /\ \E t \in DOMAIN selects : t.kind = "start" /\ t.stage = "read")
          ~> (/\ gameState = "submitting"
              /\ currentTimer.isActive
              /\ currentTimer.phase = "submission")
    /\ [][ \A t \in DOMAIN selects :
              (gameState = "waiting-for-category" /\ t.kind = "start")
                 => /\ (t.stage = "read" /\ available # {} /\ SelectRead(t))
                        => \E u \in DOMAIN selects' : \E c \in available :
                              u.kind = "start" /\ u.stage = "mark" /\ u.category = c.text
                    /\ (t.stage = "mark" /\ SelectDone(t))
                        => /\ gameState' = "submitting"
                           /\ currentCategory' = t.category
                           /\ currentTimer'.isActive
                           /\ currentTimer'.phase = "submission"
                           /\ currentTimer'.remaining = SubmissionTime
         ]_vars

\* C33: once the room is in results, no step starts the results phase again: the
\* number of result computations and display steps under way does not grow, and a
\* score is raised only by the one computation under way.
C33_ResultsStartedOnce ==
    [][ (gameState = "results" /\ gameState' = "results")
            => /\ sequenceSteps' <= sequenceSteps
               /\ \A p \in DOMAIN players :
                     players'[p].score > players[p].score
                         => BagCardinality(resultTasks) = 1
      ]_vars

\* C34: while the room stays in voting, the round's list of submissions keeps its
\* entries (no entry is added), no vote cast is removed and no player's hasVoted
\* is reset.
C34_SubmissionsFrozenInVoting ==
    [][ (gameState = "voting" /\ gameState' = "voting")
            => /\ Len(submissions') = Len(submissions)
               /\ \A i \in DOMAIN submissions :
                     /\ submissions'[i].playerId = submissions[i].playerId
                     /\ submissions'[i].exemplar = submissions[i].exemplar
                     /\ \A v \in DOMAIN submissions[i].votes :
                           v \in DOMAIN submissions'[i].votes
               /\ \A p \in DOMAIN players :
                     players[p].hasVoted => players'[p].hasVoted
      ]_vars

\* ---------------------------------------------------------------- two submissions in flight
MaxWrites == 2       \* submit-exemplar handlers suspended at logSubmission at a time
LastRound == 2       \* rounds in which exemplars are submitted

\* socket.on('submit-exemplar') up to await logSubmission, with the INSERT it
\* issues: the statement carries room.currentRoundDbId, written here as the round
\* number whose rounds row it is, and is rejected when the table already holds a
\* row for that round and player
SubmitExemplarLogged(s, exemplar) ==
    /\ s \in connected
    /\ s \in DOMAIN socketToPlayer
    /\ socketToPlayer[s] \in DOMAIN players
    /\ gameState = "submitting"
    /\ ~players[socketToPlayer[s]].hasSubmitted
    /\ Len(trim(exemplar)) > 0
    /\ BagCardinality(submits) < MaxWrites
    /\ LET row == <<round, socketToPlayer[s]>>
       IN /\ submits' = AddTask(submits, [socket |-> s, playerId |-> socketToPlayer[s],
                                          exemplar |-> exemplar,
                                          inserted |-> row \notin submissionsTable])
          /\ submissionsTable' = submissionsTable \cup {row}
    /\ lastEmit' = NoEmit
    /\ UNCHANGED <<connected, nextSocket, nextPlayerId, roomVars, socketToPlayer,
                   categories, joins, voteTasks, selects, resultTasks, timeouts, now,
                   timerVars, roomsByCode, creating, gamesTable, roundsTable>>

NextDouble ==
    \/ \E s \in Sockets :
          round <= LastRound /\ SubmitExemplarLogged(s, <<"x">>)
    \/ \E t \in DOMAIN submits : t.inserted /\ SubmitExemplarDone(t)
    \/ \E t \in DOMAIN submits : ~t.inserted /\ SubmitExemplarFailed(t)
    \/ \E t \in DOMAIN selects : SelectRead(t)
    \/ \E t \in DOMAIN selects : SelectDone(t)
    \/ \E t \in DOMAIN resultTasks : ResultsStep(t)
    \/ AutoAdvanceResults
    \/ AutoShowSummary
    \/ AutoShowScoreboard
    \/ round < LastRound /\ PrepareNextRound
    \/ \E t \in Ticking : Tick(t)

SpecDouble == InitAdvance /\ [][NextDouble]_vars

\* C35: the round's submission list holds at most one submission per player, and
\* once no submit-exemplar handler of a player is suspended, a player with a
\* submission in the list has hasSubmitted set
C35_OneSubmissionPerPlayer ==
    /\ \A i, j \in DOMAIN submissions :
          submissions[i].playerId = submissions[j].playerId => i = j
    /\ \A i \in DOMAIN submissions :
          (\A t \in DOMAIN submits : t.playerId # submissions[i].playerId)
             => players[submissions[i].playerId].hasSubmitted

\* C36: the steps of a start-lobby-game handler taken while the room is in
\* submitting, voting, results or ended (the handler up to its first await, and
\* its resumptions after the pool read and after the writes) leave the phase, the
\* round counter, the category, the submissions and the timer as they are
C36_StartOnlyFromLobby ==
    [][ (gameState \in {"submitting", "voting", "results", "ended"})
          => /\ \A s \in Sockets :
                   StartLobbyGame(s)
                      => (UNCHANGED <<gameState, round, currentCategory, submissions,
                                      currentTimer>>)
             /\ \A t \in DOMAIN selects :
                   (t.kind = "start" /\ (SelectRead(t) \/ SelectDone(t)))
                      => (UNCHANGED <<gameState, round, currentCategory, submissions,
                                      currentTimer>>)
      ]_vars

\* C37: no step lowers the round counter, and a submission phase that begins is
\* the phase of the round after the last one that began: the rounds whose start
\* was logged are 1, 2, 3, ... with none left out
C37_RoundCounterMonotonic ==
    [][ /\ round' >= round
        /\ roundsTable' # roundsTable
              => /\ gameState' = "submitting"
                 /\ roundsTable' = roundsTable \cup {Cardinality(roundsTable) + 1}
                 /\ round' = Cardinality(roundsTable) + 1
      ]_vars

\* C38: when the room's timer is active, its label is the room's phase: a timer
\* labelled submission is active only in submitting, one labelled voting only in
\* voting, and none is active in any other phase
C38_ActiveTimerMatchesPhase ==
    currentTimer.isActive
        => \/ currentTimer.phase = "submission" /\ gameState = "submitting"
           \/ currentTimer.phase = "voting" /\ gameState = "voting"

\* C39: a reconnect-success that reports a remaining time is sent in a room whose
\* timer is active, and the phase it reports is the label of that timer and the
\* room's phase (submission in submitting, voting in voting)
C39_SnapshotOfActiveTimerOnly ==
    [][ \A s \in Sockets, p \in PlayerIds :
          (ReconnectPlayer(s, p) /\ lastEmit'.event = "reconnect-success"
                                 /\ lastEmit'.timerRemaining > 0)
              => /\ currentTimer.isActive
                 /\ lastEmit'.timerPhase = currentTimer.phase
                 /\ \/ lastEmit'.timerPhase = "submission" /\ gameState = "submitting"
                    \/ lastEmit'.timerPhase = "voting" /\ gameState = "voting"
      ]_vars

\* C40: a player is marked connected exactly when it has a connection; the
\* registry maps the connection of a connected player to that player; and no
\* other connection of the registry resolves to a player
C40_RegistryMatchesPlayers ==
    /\ \A p \in DOMAIN players :
          /\ players[p].isConnected <=> players[p].socketId # NoSocket
          /\ players[p].isConnected
                => /\ players[p].socketId \in DOMAIN socketToPlayer
                   /\ socketToPlayer[players[p].socketId] = p
    /\ \A s \in DOMAIN socketToPlayer :
          socketToPlayer[s] \in DOMAIN players
             => players[socketToPlayer[s]].socketId = s
====
